---- MODULE Spec2Model ----
(***************************************************************************)
(* Model of the ccdiscord message substrate.                               *)
(*                                                                         *)
(* Part A: ClaudeCodeActor (src/README-ja.md 336-856): the mailbox queue,  *)
(*         the single-flight drain loop, the last-request cache, the       *)
(*         cooldown timers and the !retry path.                            *)
(* Part B: DiscordAdapter streaming coordinator                            *)
(*         (src/src/adapter/discord-adapter.ts 785-1046): one buffering /  *)
(*         flushing state object per originating identifier.               *)
(*                                                                         *)
(* Every `await` of the source is a point where other tasks of the single  *)
(* event loop may run; the code between two awaits is one atomic action.   *)
(***************************************************************************)
EXTENDS Integers, Sequences, FiniteSets, TLC

(***************************************************************************)
(* Bounds of the model.                                                    *)
(***************************************************************************)
\* handleMessage calls made on the actor while no cooldown delay elapses
MaxMsgs == 3
\* handleMessage calls made on the actor in a run whose cooldown timers fire
MaxTimedMsgs == 2
\* number of cooldown timer callbacks that run
MaxFires == 1

VARIABLES
    \* ---- Part A: ClaudeCodeActor
    cfg,                     \* bus injected / streamingEnabled / autoRetryEnabled
    queue,                   \* this.queue
    running,                 \* this.running
    lastRequestByChannel,    \* this.lastRequestByChannel
    cooldownTimerByChannel,  \* this.cooldownTimerByChannel (timer id, 0 = no entry)
    cooldownTimers,          \* timers set by setTimeout and neither fired nor cleared
    tasks,                   \* async invocations: handleMessage calls, timer callbacks
    nextId,                  \* crypto.randomUUID(): next fresh message identifier
    fires,                   \* cooldown callbacks run so far
    delivered,               \* handleMessage calls made so far
    stopped,                 \* ClaudeCodeActor.stop() has been called
    \* history of Part A
    started,                 \* the messages in the order processMessage was entered
    dlv                      \* per delivered !retry: the mailbox at its delivery

actorVars == <<stopped, cfg, queue, running, lastRequestByChannel, cooldownTimerByChannel,
               cooldownTimers, tasks, nextId, fires, delivered, started, dlv>>

VARIABLES
    \* ---- Part B: DiscordAdapter streaming coordinator
    scfg,                    \* getStreamingConfig(): showThinking, mode
    streamStates,            \* this.streamStates: id -> state object (0 = no entry)
    objs,                    \* the state objects created by onStreamStarted
    completedStreamIds,      \* this.completedStreamIds
    pendingTimers,           \* pending setTimeout timers, in the order they were set
    handlers,                \* handler invocations waiting at an await
    ev,                      \* the events the worker actor has emitted so far
    surface                  \* what has been delivered to the chat surface

streamVars == <<scfg, streamStates, objs, completedStreamIds, pendingTimers, handlers,
                ev, surface>>

VARIABLES
    \* ---- the pure functions of the sources, applied to one input
    input,                   \* the argument drawn for the function
    output,                  \* what the function returned (NoOutput before the call)
    \* ---- ClaudeCodeAdapter: its fields and the query calls in progress
    adapter

fnVars == <<input, output, adapter>>

vars == <<actorVars, streamVars, fnVars>>

NoInput == <<>>
NoOutput == <<>>
\* an optional value: Absent is undefined, Some(x) is x
Absent == <<>>
Some(x) == <<x>>

\* no pure function is under study
InitNoCall == input = NoInput /\ output = NoOutput /\ adapter = <<>>
\* (adapter = <<>>: the agent adapter is not under study)

----------------------------------------------------------------------------
(***************************************************************************)
(* Part A: data                                                            *)
(***************************************************************************)
Channels == {"c1", "c2"}
\* payload.channelId absent (undefined / "")
NoCh == ""

ErrorKinds == {"USAGE_LIMIT", "IMAGE_TOO_LARGE", "NETWORK", "CLI_NOT_FOUND", "UNKNOWN"}
\* what adapter.query does: resolves, rejects with a CLAUDE_ERROR JSON of a
\* kind, or rejects with a plain message ("Query was aborted")
QueryOutcomes == {"ok", "plain"} \cup ErrorKinds
\* the outcomes drawn in the runs whose cooldown timers fire
TimedOutcomes == {"ok", "plain", "USAGE_LIMIT", "NETWORK"}

\* The messages delivered to the actor, as <<type, channel, text present,
\* attachments, command>>.
\* Without timers: a text in either conversation and in none, an empty message,
\* an attachment without text, !retry.
MailboxInputs ==
    { <<"discord-message", "c1", TRUE, 0, "">>,
      <<"discord-message", "c2", TRUE, 0, "">>,
      <<"discord-message", NoCh, TRUE, 0, "">>,
      <<"discord-message", "c1", FALSE, 0, "">>,
      <<"discord-message", "c1", FALSE, 1, "">>,
      <<"discord-command", "c1", FALSE, 0, "!retry">> }
\* With timers: a text in either conversation, !retry.
TimedInputs ==
    { <<"discord-message", "c1", TRUE, 0, "">>,
      <<"discord-message", "c2", TRUE, 0, "">>,
      <<"discord-command", "c1", FALSE, 0, "!retry">> }

MaxTasks == IF MaxMsgs > MaxTimedMsgs THEN MaxMsgs ELSE MaxTimedMsgs
HmTasks == 1..MaxTasks
TimerTasks == (MaxTasks + 1)..(MaxTasks + MaxFires)
TaskIds == HmTasks \cup TimerTasks

\* An ActorMessage.  text = 0 is the empty text; any other value names the
\* delivered message the text came from.  oid is payload.originalMessageId
\* (0 = absent).  of is history: the command or timer a clone was made for.
NoMsg == [id |-> 0, type |-> "none", cmd |-> "", text |-> 0, natt |-> 0,
          ch |-> NoCh, oid |-> 0, of |-> 0]

ContentMessage(id, ch, hasText, natt) ==
    [id |-> id, type |-> "discord-message", cmd |-> "",
     text |-> (IF hasText THEN id ELSE 0), natt |-> natt,
     ch |-> ch, oid |-> 0, of |-> 0]

CommandMessage(id, ch, cmd) ==
    [id |-> id, type |-> "discord-command", cmd |-> cmd, text |-> 0, natt |-> 0,
     ch |-> ch, oid |-> 0, of |-> 0]

InputMessage(id, in) ==
    IF in[1] = "discord-message"
    THEN ContentMessage(id, in[2], in[3], in[4])
    ELSE CommandMessage(id, in[2], in[5])

\* issued is history: what the processMessage frame (or timer callback) in
\* progress has handed to the bus and to the agent client so far
\* cleared is history: the handle of the pending timer that the retryLast the
\* task is in has cleared (0 = none); at is history: the field at of the timer
\* whose callback the task is
NoTask == [pc |-> "none", stack |-> <<>>, kind |-> "", ch |-> NoCh, oid |-> 0,
           issued |-> <<>>, cleared |-> 0, at |-> 0]

\* History kept for a delivered !retry whose conversation has a cached
\* request: the messages waiting in the mailbox at that moment.
NoDelivery == [retry |-> FALSE, waiting |-> {}]

\* the message a task's processMessage is working on
Cur(t) == Head(tasks[t].stack)

\* const originalMessageId = content.originalMessageId ?? message.id
OriginalMessageId(m) == IF m.oid # 0 THEN m.oid ELSE m.id

\* !text && attachments.length === 0
NoContent(m) == m.text = 0 /\ m.natt = 0

\* a canStream that does not look at the bus
CanStreamWithoutBus == cfg.streaming
\* const canStream = streamingEnabled && !!this.bus
CanStream == cfg.streaming /\ cfg.bus

IdsOf(q) == {q[i].id : i \in 1..Len(q)}

----------------------------------------------------------------------------
(***************************************************************************)
(* Part A: helpers that carry the decisions of the code                    *)
(***************************************************************************)
EnqueueFront(q, m) == <<m>> \o q
\* handleMessage: this.queue.push(message)
Enqueue(q, m) == Append(q, m)

NeverBusy(r) == FALSE
\* drainQueue: if (this.running) return;
DrainBusy(r) == r

UnshiftBack(q, m) == Append(q, m)
\* retryLast: this.queue.unshift(clonedMessage)
Unshift(q, m) == <<m>> \o q

\* retryLast: the clone of the stored request
CloneOf(stored, ch, oid, id, src) ==
    [stored EXCEPT !.id = id, !.ch = ch,
                   !.oid = (IF oid # 0 THEN oid ELSE stored.oid), !.of = src]

\* a cache write that keeps the request a slot already holds
CacheAfterFirstWins(cache, m) ==
    IF m.ch # NoCh /\ cache[m.ch] = NoMsg
    THEN [cache EXCEPT ![m.ch] = [m EXCEPT !.oid = OriginalMessageId(m)]]
    ELSE cache
\* processMessage: what lastRequestByChannel holds after the cache write
CacheAfter(cache, m) ==
    IF m.ch # NoCh
    THEN [cache EXCEPT ![m.ch] = [m EXCEPT !.oid = OriginalMessageId(m)]]
    ELSE cache

\* a clearTimeout that leaves the timer pending
ClearTimeoutNot(timers, handle) == timers
\* clearTimeout(handle): the timer no longer fires
ClearTimeout(timers, handle) == {tm \in timers : tm.tid # handle}

\* the timers pending under a handle
Pending(timers, handle) == {tm \in timers : tm.tid = handle}

\* scheduleCooldownNotice without its clearTimeout(previous)
ScheduleTimersKeep(timers, byCh, ch, oid, tid) ==
    timers \cup {[tid |-> tid, ch |-> ch, oid |-> oid, at |-> nextId,
                  prev |-> IF Pending(timers, byCh[ch]) # {} THEN byCh[ch] ELSE 0]}
\* scheduleCooldownNotice: previous timer of the channel cleared, new one set
\* (the handle of a timer is named after the message whose failure set it;
\* history: prev is the handle of the pending timer this one replaced, at the
\* first identifier not yet drawn when the timer was set)
ScheduleTimers(timers, byCh, ch, oid, tid) ==
    ClearTimeout(timers, byCh[ch])
        \cup {[tid |-> tid, ch |-> ch, oid |-> oid, at |-> nextId,
                prev |-> IF Pending(timers, byCh[ch]) # {} THEN byCh[ch] ELSE 0]}

----------------------------------------------------------------------------
(***************************************************************************)
(* Part A: initial state (after construction, setMessageBus and start)     *)
(***************************************************************************)
InitActor ==
    /\ cfg \in [bus : BOOLEAN, streaming : BOOLEAN, autoRetry : BOOLEAN]
    /\ stopped = FALSE
    /\ queue = <<>>
    /\ running = FALSE
    /\ lastRequestByChannel = [c \in Channels |-> NoMsg]
    /\ cooldownTimerByChannel = [c \in Channels |-> 0]
    /\ cooldownTimers = {}
    /\ tasks = [t \in TaskIds |-> NoTask]
    /\ nextId = MaxTasks + 1
    /\ fires = 0
    /\ delivered = 0
    /\ started = <<>>
    /\ dlv = [k \in HmTasks |-> NoDelivery]

\* the originating identifiers the coordinator sees
StreamIds == {"r1"}

\* the payload of a stream-error event: { message?: string; fatal?: boolean }
NoPayload == [message |-> Absent, fatal |-> Absent]

\* emitStreamNotice from the catch of processMessage: the classified hint
FatalPayloads == {[message |-> Some(<<"E">>), fatal |-> Some(TRUE)]}

\* stream-error events that are notices: fatal is false, the text may be empty
NoticePayloads ==
    {[message |-> Some(<<"N">>), fatal |-> Some(FALSE)],
     [message |-> Some(<<>>), fatal |-> Some(FALSE)]}

\* getStreamingConfig(): the values used when the configuration sets none
DefaultConfig == scfg = [showThinking |-> TRUE, showAbort |-> TRUE, mode |-> "edit"]

\* the coordinator after construction: no session, no timer, nothing sent
InitCoordinator ==
    /\ scfg \in [showThinking : BOOLEAN, showAbort : BOOLEAN, mode : {"edit", "append"}]
    /\ streamStates = [id \in StreamIds |-> 0]
    /\ objs = <<>>
    /\ completedStreamIds = {}
    /\ pendingTimers = <<>>
    /\ handlers = <<>>
    /\ ev = [phase |-> "idle", partials |-> 0, term |-> "", reply |-> FALSE,
             progress |-> 0, todo |-> <<>>, last |-> [n |-> 0, k |-> 0],
             err |-> NoPayload, abort |-> "none", flushed |-> "none"]
    /\ surface = <<>>

----------------------------------------------------------------------------
(***************************************************************************)
(* Part A: task bookkeeping                                                *)
(***************************************************************************)
\* the call a task waits for at pc, as the bus or the agent client sees it:
\* emitStreamNotice emits only with a bus; the other bus calls are reached
\* only with a bus
IssuedAt(pc) ==
    CASE pc \in {"notice", "retry_notice", "cd_notice"} ->
            IF cfg.bus THEN <<"notice">> ELSE <<>>
      [] pc \in {"catch_notice", "ns_err_notice"} ->
            IF cfg.bus THEN <<"fatal-notice">> ELSE <<>>
      [] pc \in {"query", "ns_query"} -> <<"query">>
      [] pc = "emit_started" -> <<"stream-started">>
      [] pc = "emit_completed" -> <<"stream-completed">>
      [] pc \in {"send_response", "ns_send_response"} -> <<"claude-response">>
      [] pc \in {"nocontent_send", "catch_send", "ns_err_send", "ns_fallback_send"} ->
            <<"error">>
      [] OTHER -> <<>>

\* the task goes on at pc, with m pushed as the message of a new
\* processMessage frame
Enter(t, m, pc) ==
    [tasks EXCEPT ![t].pc = pc, ![t].stack = <<m>> \o @, ![t].kind = "",
                  ![t].issued = IssuedAt(pc)]

Goto(t, pc) ==
    [tasks EXCEPT ![t].pc = pc,
                  ![t].issued = IF pc \in {"loop", "done"} THEN <<>>
                                ELSE @ \o IssuedAt(pc),
                  ![t].cleared = IF pc \in {"loop", "done"} THEN 0 ELSE @]

\* the pending timer that retryLast(ch) clears (0 = none)
ClearedBy(ch) ==
    IF /\ ch # NoCh
       /\ lastRequestByChannel[ch] # NoMsg
       /\ Pending(cooldownTimers, cooldownTimerByChannel[ch]) # {}
    THEN cooldownTimerByChannel[ch]
    ELSE 0

GotoKind(t, pc, kind) ==
    [tasks EXCEPT ![t].pc = pc, ![t].kind = kind, ![t].issued = @ \o IssuedAt(pc)]

\* The call made by the task has returned.  Inside processMessage the frame
\* returns to the while loop of drainQueue; a timer callback is over.
Returned(t) ==
    IF tasks[t].stack # <<>>
    THEN tasks' = [tasks EXCEPT ![t].pc = "loop", ![t].stack = Tail(@), ![t].kind = "",
                                ![t].issued = <<>>, ![t].cleared = 0]
    ELSE tasks' = [tasks EXCEPT ![t].pc = "done", ![t].issued = <<>>, ![t].cleared = 0]


\* An exception leaves processMessage: drainQueue has no catch, its finally
\* clears the flag, and the promise of the owner of the drain loop rejects.
Escaped(t) ==
    /\ running' = FALSE
    /\ tasks' = [tasks EXCEPT ![t].pc = "failed", ![t].stack = <<>>, ![t].kind = "",
                               ![t].issued = <<>>]

\* retryLast without its notice for a conversation that has no stored request
RetryLastSilent(ch, oid, src, q) ==
    LET base == [pc |-> "return", queue |-> q, timers |-> cooldownTimers,
                 byCh |-> cooldownTimerByChannel, nextId |-> nextId]
    IN  IF ch = NoCh \/ lastRequestByChannel[ch] = NoMsg THEN base
        ELSE [pc |-> "retry_notice",
              queue |-> Unshift(q, CloneOf(lastRequestByChannel[ch], ch, oid, nextId, src)),
              timers |-> ClearTimeout(cooldownTimers, cooldownTimerByChannel[ch]),
              byCh |-> [cooldownTimerByChannel EXCEPT ![ch] = 0],
              nextId |-> nextId + 1]

\* retryLast(channelId, {originalMessageId: oid}) up to its first await.
\* src is history: the command id, or minus the timer id.
RetryLast(ch, oid, src, q) ==
    LET base == [pc |-> "return", queue |-> q, timers |-> cooldownTimers,
                 byCh |-> cooldownTimerByChannel, nextId |-> nextId]
    IN  IF ch = NoCh THEN base
        ELSE IF lastRequestByChannel[ch] = NoMsg
             THEN [base EXCEPT !.pc = "notice"]
             ELSE [pc |-> "retry_notice",
                   queue |-> Unshift(q, CloneOf(lastRequestByChannel[ch], ch, oid, nextId, src)),
                   timers |-> ClearTimeout(cooldownTimers, cooldownTimerByChannel[ch]),
                   byCh |-> [cooldownTimerByChannel EXCEPT ![ch] = 0],
                   nextId |-> nextId + 1]

\* processMessage without its check for an empty message
FirstAwaitNoCheck(m) ==
    IF m.type = "discord-command"
    THEN IF m.ch # NoCh THEN "notice" ELSE "return"
    ELSE IF CanStream THEN "emit_started" ELSE "ns_query"

\* processMessage(m) up to its first await: where the task waits next
\* ("return" when processMessage returns without awaiting).
FirstAwait(m) ==
    IF m.type = "discord-command"
    THEN IF m.ch # NoCh THEN "notice" ELSE "return"
    ELSE IF NoContent(m)
         THEN IF cfg.bus THEN "nocontent_send" ELSE "return"
         ELSE IF CanStream THEN "emit_started" ELSE "ns_query"

----------------------------------------------------------------------------
(***************************************************************************)
(* Part A: actions                                                         *)
(***************************************************************************)
DeliveryOf(m) ==
    IF /\ m.type = "discord-command" /\ m.cmd = "!retry" /\ m.ch # NoCh
       /\ lastRequestByChannel[m.ch] # NoMsg
    THEN [retry |-> TRUE, waiting |-> IdsOf(queue)]
    ELSE NoDelivery

\* handleMessage(message): push, then drainQueue() up to its first await.
HandleMessage(m) ==
    /\ m.id = delivered + 1
    /\ delivered' = delivered + 1
    /\ queue' = Enqueue(queue, m)
    /\ dlv' = [dlv EXCEPT ![m.id] = DeliveryOf(m)]
    /\ IF DrainBusy(running)
       THEN /\ tasks' = Goto(m.id, "done")
            /\ UNCHANGED running
       ELSE /\ tasks' = Goto(m.id, "loop")
            /\ running' = TRUE
    /\ UNCHANGED <<streamVars, fnVars, stopped, cfg, lastRequestByChannel, cooldownTimerByChannel, cooldownTimers,
                   nextId, fires, started>>

Deliver ==
    /\ delivered < MaxMsgs
    /\ \E in \in MailboxInputs : HandleMessage(InputMessage(delivered + 1, in))

DeliverTimed ==
    /\ delivered < MaxTimedMsgs
    /\ \E in \in TimedInputs : HandleMessage(InputMessage(delivered + 1, in))

\* drainQueue: the while loop finds the queue empty; finally { running = false }
DrainExit(t) ==
    /\ tasks[t].pc = "loop"
    /\ queue = <<>>
    /\ running' = FALSE
    /\ Returned(t)
    /\ UNCHANGED <<streamVars, fnVars, stopped, cfg, queue, lastRequestByChannel, cooldownTimerByChannel,
                   cooldownTimers, nextId, fires, delivered, started, dlv>>

\* drainQueue: shift the next message and run processMessage to its first await
DrainNext(t) ==
    /\ tasks[t].pc = "loop"
    /\ queue # <<>>
    /\ LET m == Head(queue)
           isRetry == m.type = "discord-command" /\ m.cmd = "!retry"
           r == RetryLast(m.ch, m.id, m.id, Tail(queue))
           pc == IF isRetry THEN r.pc ELSE FirstAwait(m)
       IN  /\ started' = Append(started, [id |-> m.id, of |-> m.of, ch |-> m.ch])
           /\ queue' = IF isRetry THEN r.queue ELSE Tail(queue)
           /\ cooldownTimers' = IF isRetry THEN r.timers ELSE cooldownTimers
           /\ cooldownTimerByChannel' = IF isRetry THEN r.byCh ELSE cooldownTimerByChannel
           /\ nextId' = IF isRetry THEN r.nextId ELSE nextId
           /\ lastRequestByChannel' =
                 IF m.type = "discord-message" THEN CacheAfter(lastRequestByChannel, m)
                 ELSE lastRequestByChannel
           /\ IF pc = "return"
              THEN UNCHANGED tasks
              ELSE tasks' = [Enter(t, m, pc) EXCEPT
                                ![t].cleared = IF isRetry THEN ClearedBy(m.ch) ELSE 0]

    /\ UNCHANGED <<streamVars, fnVars, stopped, cfg, running, fires, delivered, dlv>>

\* emitStreamNotice has settled (its own catch swallows a failing emit); the
\* caller had nothing left to do
NoticeDone(t) ==
    /\ tasks[t].pc = "notice"
    /\ Returned(t)
    /\ UNCHANGED <<streamVars, fnVars, stopped, cfg, queue, running, lastRequestByChannel, cooldownTimerByChannel,
                   cooldownTimers, nextId, fires, delivered, started, dlv>>

\* retryLast after its "retrying" notice: await this.drainQueue()
RetryNoticeDone(t) ==
    /\ tasks[t].pc = "retry_notice"
    /\ IF DrainBusy(running)
       THEN /\ Returned(t)
            /\ UNCHANGED running
       ELSE /\ running' = TRUE
            /\ tasks' = Goto(t, "loop")

    /\ UNCHANGED <<streamVars, fnVars, stopped, cfg, queue, lastRequestByChannel, cooldownTimerByChannel,
                   cooldownTimers, nextId, fires, delivered, started, dlv>>

\* the bus.send of the "No text provided" error reply has settled
NoContentSendDone(t) ==
    /\ tasks[t].pc = "nocontent_send"
    /\ \E throws \in BOOLEAN :
          IF throws THEN Escaped(t) ELSE Returned(t) /\ UNCHANGED running
    /\ UNCHANGED <<streamVars, fnVars, stopped, cfg, queue, lastRequestByChannel, cooldownTimerByChannel,
                   cooldownTimers, nextId, fires, delivered, started, dlv>>

\* scheduleCooldownNotice(channelId, originalMessageId, retryAfterMs), called
\* where a failed request of kind USAGE_LIMIT is reported
ScheduleCooldownNotice(t) ==
    LET ch == Cur(t).ch
    IN  IF tasks[t].kind = "USAGE_LIMIT" /\ ch # NoCh
        THEN /\ cooldownTimers' = ScheduleTimers(cooldownTimers, cooldownTimerByChannel,
                                                 ch, OriginalMessageId(Cur(t)), Cur(t).id)
             /\ cooldownTimerByChannel' = [cooldownTimerByChannel EXCEPT ![ch] = Cur(t).id]
        ELSE UNCHANGED <<cooldownTimers, cooldownTimerByChannel>>

\* streaming path, catch (error): up to its first await
Catch(t, kind) ==
    /\ tasks' = GotoKind(t, IF Cur(t).ch # NoCh THEN "catch_notice" ELSE "catch_send", kind)
    /\ UNCHANGED running

\* streaming path: the emit of stream-started has settled
EmitStartedDone(t) ==
    /\ tasks[t].pc = "emit_started"
    /\ \E throws \in BOOLEAN :
          IF throws THEN Catch(t, "plain")
          ELSE tasks' = Goto(t, "query") /\ UNCHANGED running
    /\ UNCHANGED <<streamVars, fnVars, stopped, cfg, queue, lastRequestByChannel, cooldownTimerByChannel,
                   cooldownTimers, nextId, fires, delivered, started, dlv>>

\* streaming path: adapter.query(mergedText, onProgress) has settled
QueryDone(t, outcomes) ==
    /\ tasks[t].pc = "query"
    /\ \E outcome \in outcomes :
          IF outcome = "ok"
          THEN tasks' = Goto(t, "emit_completed") /\ UNCHANGED running
          ELSE Catch(t, outcome)
    /\ UNCHANGED <<streamVars, fnVars, stopped, cfg, queue, lastRequestByChannel, cooldownTimerByChannel,
                   cooldownTimers, nextId, fires, delivered, started, dlv>>

\* streaming path: the emit of stream-completed has settled
EmitCompletedDone(t) ==
    /\ tasks[t].pc = "emit_completed"
    /\ \E throws \in BOOLEAN :
          IF throws THEN Catch(t, "plain")
          ELSE tasks' = Goto(t, "send_response") /\ UNCHANGED running
    /\ UNCHANGED <<streamVars, fnVars, stopped, cfg, queue, lastRequestByChannel, cooldownTimerByChannel,
                   cooldownTimers, nextId, fires, delivered, started, dlv>>

\* streaming path: the bus.send of the claude-response has settled
SendResponseDone(t) ==
    /\ tasks[t].pc = "send_response"
    /\ \E throws \in BOOLEAN :
          IF throws THEN Catch(t, "plain")
          ELSE Returned(t) /\ UNCHANGED running
    /\ UNCHANGED <<streamVars, fnVars, stopped, cfg, queue, lastRequestByChannel, cooldownTimerByChannel,
                   cooldownTimers, nextId, fires, delivered, started, dlv>>

\* streaming path, catch: emitStreamNotice(fatal) has settled
CatchNoticeDone(t) ==
    /\ tasks[t].pc = "catch_notice"
    /\ tasks' = Goto(t, "catch_send")
    /\ UNCHANGED <<streamVars, fnVars, stopped, cfg, queue, running, lastRequestByChannel, cooldownTimerByChannel,
                   cooldownTimers, nextId, fires, delivered, started, dlv>>

\* streaming path, catch: the bus.send of the error reply has settled
CatchSendDone(t) ==
    /\ tasks[t].pc = "catch_send"
    /\ \E throws \in BOOLEAN :
          IF throws
          THEN /\ Escaped(t)
               /\ UNCHANGED <<cooldownTimers, cooldownTimerByChannel>>
          ELSE /\ ScheduleCooldownNotice(t)
               /\ Returned(t)
               /\ UNCHANGED running
    /\ UNCHANGED <<streamVars, fnVars, stopped, cfg, queue, lastRequestByChannel, nextId, fires, delivered,
                   started, dlv>>

\* non-streaming path: adapter.query(mergedText) has settled
NsQueryDone(t) ==
    /\ tasks[t].pc = "ns_query"
    /\ \E outcome \in QueryOutcomes :
          IF ~cfg.bus
          THEN Returned(t)
          ELSE /\ tasks' = GotoKind(t, IF outcome = "ok" THEN "ns_send_response"
                                       ELSE IF outcome \in ErrorKinds THEN "ns_err_send"
                                       ELSE "ns_fallback_send",
                                    IF outcome \in ErrorKinds THEN outcome ELSE "")

    /\ UNCHANGED <<streamVars, fnVars, stopped, cfg, queue, running, lastRequestByChannel, cooldownTimerByChannel,
                   cooldownTimers, nextId, fires, delivered, started, dlv>>

\* non-streaming path: the bus.send of the claude-response has settled; a
\* failure is caught by the same try and is not a CLAUDE_ERROR
NsSendResponseDone(t) ==
    /\ tasks[t].pc = "ns_send_response"
    /\ \E throws \in BOOLEAN :
          IF throws
          THEN tasks' = Goto(t, "ns_fallback_send")
          ELSE Returned(t)
    /\ UNCHANGED <<streamVars, fnVars, stopped, cfg, queue, running, lastRequestByChannel, cooldownTimerByChannel,
                   cooldownTimers, nextId, fires, delivered, started, dlv>>

\* non-streaming path, catch: the bus.send of the parsed error has settled
NsErrSendDone(t) ==
    /\ tasks[t].pc = "ns_err_send"
    /\ \E throws \in BOOLEAN :
          IF throws THEN Escaped(t)
          ELSE IF Cur(t).ch # NoCh
               THEN tasks' = Goto(t, "ns_err_notice") /\ UNCHANGED running
               ELSE Returned(t) /\ UNCHANGED running
    /\ UNCHANGED <<streamVars, fnVars, stopped, cfg, queue, lastRequestByChannel, cooldownTimerByChannel,
                   cooldownTimers, nextId, fires, delivered, started, dlv>>

\* non-streaming path, catch: emitStreamNotice(fatal) has settled
NsErrNoticeDone(t) ==
    /\ tasks[t].pc = "ns_err_notice"
    /\ ScheduleCooldownNotice(t)
    /\ Returned(t)
    /\ UNCHANGED <<streamVars, fnVars, stopped, cfg, queue, running, lastRequestByChannel, nextId, fires,
                   delivered, started, dlv>>

\* non-streaming path, catch: the bus.send of the fallback error has settled
NsFallbackSendDone(t) ==
    /\ tasks[t].pc = "ns_fallback_send"
    /\ \E throws \in BOOLEAN :
          IF throws THEN Escaped(t) ELSE Returned(t) /\ UNCHANGED running
    /\ UNCHANGED <<streamVars, fnVars, stopped, cfg, queue, lastRequestByChannel, cooldownTimerByChannel,
                   cooldownTimers, nextId, fires, delivered, started, dlv>>

\* the setTimeout callback of scheduleCooldownNotice, up to its first await.
\* A timer callback is a task of the event loop: it does not run while the
\* continuation of a settled await (the next turn of the drain loop) is due.
CooldownFire(tm) ==
    /\ tm \in cooldownTimers
    /\ \A t \in TaskIds : tasks[t].pc # "loop"
    /\ fires < MaxFires
    /\ fires' = fires + 1
    /\ cooldownTimers' = cooldownTimers \ {tm}
    /\ cooldownTimerByChannel' = [cooldownTimerByChannel EXCEPT ![tm.ch] = 0]
    /\ tasks' = [tasks EXCEPT ![MaxTasks + fires + 1] =
                    [NoTask EXCEPT !.pc = "cd_notice", !.ch = tm.ch, !.oid = tm.oid,
                                   !.at = tm.at,
                                   !.issued = IssuedAt("cd_notice")]]
    /\ UNCHANGED <<streamVars, fnVars, stopped, cfg, queue, running, lastRequestByChannel, nextId,
                   delivered, started, dlv>>

\* a callback that retries whatever the flag says
AutoRetryAlways == TRUE
\* this.autoRetryEnabled
AutoRetryEnabled == cfg.autoRetry

\* the callback after its notice: if (this.autoRetryEnabled) retryLast(...)
CooldownNoticeDone(t) ==
    /\ tasks[t].pc = "cd_notice"
    /\ IF AutoRetryEnabled
       THEN LET r == RetryLast(tasks[t].ch, tasks[t].oid, 0 - t, queue)
            IN  /\ queue' = r.queue
                /\ cooldownTimers' = r.timers
                /\ cooldownTimerByChannel' = r.byCh
                /\ nextId' = r.nextId
                /\ tasks' = [Goto(t, r.pc) EXCEPT
                                ![t].cleared = IF r.pc = "retry_notice"
                                               THEN ClearedBy(tasks[t].ch) ELSE 0]
       ELSE /\ tasks' = Goto(t, "done")
            /\ UNCHANGED <<queue, cooldownTimers, cooldownTimerByChannel, nextId>>
    /\ UNCHANGED <<streamVars, fnVars, stopped, cfg, running, lastRequestByChannel, fires, delivered,
                   started, dlv>>

\* the steps of a task on the streaming path and around it
Step(t, outcomes) ==
    \/ DrainExit(t)
    \/ DrainNext(t)
    \/ NoticeDone(t)
    \/ RetryNoticeDone(t)
    \/ EmitStartedDone(t)
    \/ QueryDone(t, outcomes)
    \/ EmitCompletedDone(t)
    \/ SendResponseDone(t)
    \/ CatchNoticeDone(t)
    \/ CatchSendDone(t)

\* the steps of a task on the no-content and non-streaming paths
StepFallback(t) ==
    \/ NoContentSendDone(t)
    \/ NsQueryDone(t)
    \/ NsSendResponseDone(t)
    \/ NsErrSendDone(t)
    \/ NsErrNoticeDone(t)
    \/ NsFallbackSendDone(t)

\* The actor while no cooldown delay (at least 60 s) elapses.
NextMailbox ==
    \/ Deliver
    \/ \E t \in TaskIds : Step(t, QueryOutcomes)
    \/ \E t \in TaskIds : StepFallback(t)

\* The actor with its cooldown timers firing.
NextActor ==
    \/ DeliverTimed
    \/ \E t \in TaskIds : Step(t, TimedOutcomes)
    \/ \E t \in TaskIds : CooldownNoticeDone(t)
    \/ \E tm \in cooldownTimers : CooldownFire(tm)

InitMailbox ==
    InitActor /\ ~cfg.autoRetry /\ InitCoordinator /\ DefaultConfig /\ InitNoCall

InitTimed ==
    InitActor /\ cfg.bus /\ cfg.streaming /\ InitCoordinator /\ DefaultConfig
        /\ InitNoCall

SpecMailbox == InitMailbox /\ [][NextMailbox]_vars

SpecActor == InitTimed /\ [][NextActor]_vars

----------------------------------------------------------------------------
(***************************************************************************)
(* Part A: properties of the mailbox                                       *)
(***************************************************************************)
\* the processMessage frames in progress
ActiveFrames == {t \in TaskIds : tasks[t].stack # <<>>}
ActiveIds == UNION {IdsOf(tasks[t].stack) : t \in TaskIds}
StartedIds == {started[i].id : i \in 1..Len(started)}
\* the messages whose processMessage has returned or thrown
FinishedIds == StartedIds \ ActiveIds
PosOf(id) == CHOOSE i \in 1..Len(started) : started[i].id = id
IsDelivered(e) == e.id <= MaxTasks
\* the task runs the while loop of drainQueue
Draining(t) == tasks[t].pc = "loop" \/ tasks[t].stack # <<>>
\* the task sits in retryLast before its call of drainQueue
WillDrain(t) == tasks[t].pc = "retry_notice" /\ tasks[t].stack = <<>>

\* C1: the messages handed to handleMessage are processed in the order of
\* their arrival, none skipped, and processMessage of one never starts
\* before processMessage of the previous one has returned.
C1_FifoOneAtATime ==
    /\ \A i, j \in 1..Len(started) :
          (i < j /\ IsDelivered(started[i]) /\ IsDelivered(started[j]))
              => started[i].id < started[j].id
    /\ \A k \in StartedIds : k <= MaxTasks => \A j \in 1..k : j \in StartedIds
    /\ Cardinality(ActiveFrames) <= 1
    /\ \A t \in TaskIds : Len(tasks[t].stack) <= 1

\* the drain loop started by the first call is processing the third message,
\* both later messages having arrived while it was running
C1_Witness ==
    /\ Len(started) = 3
    /\ \A i \in 1..3 : started[i].id = i
    /\ tasks[1].stack # <<>> /\ Cur(1).id = 3
    /\ tasks[2].pc = "done" /\ tasks[3].pc = "done"

\* C2: at most one adapter.query call is in flight, whatever the
\* interleaving of handleMessage, !retry and the cooldown timers.
AgentCalls == {t \in TaskIds : tasks[t].pc \in {"query", "ns_query"}}
C2_OneAgentCall == Cardinality(AgentCalls) <= 1

\* an agent call is in flight while the callback of a cooldown timer has
\* put its clone in the queue and is about to call drainQueue
C2_Witness ==
    /\ AgentCalls # {}
    /\ \E t \in TimerTasks : WillDrain(t)
    /\ queue # <<>>

\* C3 as stated: the request re-executed for a !retry that arrived while
\* messages were waiting is processed ahead of each of those messages.
C3_AheadOfWaiting ==
    \A r \in 1..delivered : \A m \in dlv[r].waiting :
        (dlv[r].retry /\ m \in StartedIds)
            => \E i \in 1..Len(started) : started[i].of = r /\ i < PosOf(m)

\* C3 amended: the request re-executed for a !retry is processed after the
\* !retry command, which is processed after every message that arrived
\* before it; only re-executed requests come between the command and its
\* re-execution, so that it is ahead of every message that arrived later.
C3_AfterOwnTurn ==
    \A i \in 1..Len(started) :
        started[i].of > 0 =>
            /\ \A m \in 1..started[i].of : m \in StartedIds /\ PosOf(m) < i
            /\ \A j \in 1..Len(started) :
                  (PosOf(started[i].of) < j /\ j < i) => started[j].of # 0

\* a !retry arrived while an earlier message was waiting, and the request
\* re-executed for it has been started
C3_Witness ==
    \E i \in 1..Len(started) :
        /\ started[i].of > 0
        /\ dlv[started[i].of].retry
        /\ dlv[started[i].of].waiting # {}

\* C4 as stated: the promise of handleMessage(m) resolves only when m has
\* been processed.
C4_ResolvesAfterProcessing ==
    \A k \in 1..delivered : tasks[k].pc = "done" => k \in FinishedIds

\* C5 as stated: after a failure the drain loop goes on: messages wait in
\* the queue only while some drain loop runs or is about to, and the flag
\* is set only while a drain loop runs.
C5_DrainSurvives ==
    /\ queue # <<>> => \E t \in TaskIds : Draining(t) \/ WillDrain(t)
    /\ running => \E t \in TaskIds : Draining(t)

\* the message is a !retry command
IsRetry(m) == m.type = "discord-command" /\ m.cmd = "!retry"

\* the head of the queue is a !retry for a conversation with no stored request
RetryWithoutCache ==
    /\ queue # <<>>
    /\ IsRetry(Head(queue))
    /\ Head(queue).ch # NoCh
    /\ lastRequestByChannel[Head(queue).ch] = NoMsg

\* what a frame that handles a !retry without stored request may have issued
\* when it returns
RetryNoticeOnly(t, expected) ==
    /\ RetryWithoutCache /\ DrainNext(t)
          => /\ queue' = Tail(queue)
             /\ nextId' = nextId
             /\ tasks'[t].stack # <<>> /\ tasks'[t].issued = expected
    /\ (tasks[t].stack # <<>> /\ IsRetry(Cur(t)) /\ tasks[t].pc = "notice"
            /\ tasks'[t] # tasks[t])
          => /\ tasks[t].issued = expected
             /\ tasks'[t].pc = "loop"
             /\ queue' = queue

\* C11 as stated: processing a !retry for a conversation without cached
\* request emits exactly one non-fatal notice, enqueues nothing and does not
\* call the agent.
C11_OneNotice ==
    [][\A t \in TaskIds : RetryNoticeOnly(t, <<"notice">>)]_vars

\* C11 amended: it enqueues nothing and does not call the agent; it emits
\* exactly one non-fatal notice when a bus is set, and none without a bus.
C11_OneNoticeWithBus ==
    [][\A t \in TaskIds :
          RetryNoticeOnly(t, IF cfg.bus THEN <<"notice">> ELSE <<>>)]_vars

\* with a bus, a !retry without cached request is waiting for its notice
C11_Witness ==
    \E t \in TaskIds :
        /\ cfg.bus
        /\ tasks[t].stack # <<>> /\ IsRetry(Cur(t))
        /\ tasks[t].pc = "notice" /\ tasks[t].issued = <<"notice">>

\* the head of the queue is a content message with no text and no attachment
EmptyContent ==
    /\ queue # <<>>
    /\ Head(queue).type = "discord-message"
    /\ Head(queue).text = 0 /\ Head(queue).natt = 0

\* C12 as stated: a content message with empty text and no attachment
\* produces exactly one error reply, no call of the agent and no stream event.
C12_OneReply ==
    [][\A t \in TaskIds :
          (EmptyContent /\ DrainNext(t))
              => /\ tasks'[t].stack # <<>>
                 /\ tasks'[t].issued = <<"error">>
                 /\ tasks'[t].pc = "nocontent_send"]_vars

\* C12 amended: no call of the agent and no stream event; exactly one error
\* reply when a bus is set, none without a bus (processMessage returns at
\* once).
C12_OneReplyWithBus ==
    [][\A t \in TaskIds :
          /\ (EmptyContent /\ DrainNext(t))
                => IF cfg.bus
                   THEN /\ tasks'[t].stack # <<>>
                        /\ tasks'[t].issued = <<"error">>
                        /\ tasks'[t].pc = "nocontent_send"
                   ELSE tasks'[t] = tasks[t]
          /\ (tasks[t].pc = "nocontent_send" /\ tasks'[t] # tasks[t])
                => /\ tasks[t].issued = <<"error">>
                   /\ tasks'[t].pc \in {"loop", "failed"}]_vars

\* with a bus, the reply to an empty content message is being sent
C12_Witness ==
    \E t \in TaskIds :
        /\ cfg.bus
        /\ tasks[t].pc = "nocontent_send"
        /\ NoContent(Cur(t))
        /\ tasks[t].issued = <<"error">>

----------------------------------------------------------------------------
(***************************************************************************)
(* Part B: DiscordAdapter streaming coordinator.  Texts are sequences of   *)
(* characters.                                                             *)
(***************************************************************************)
\* stream-partial events emitted for one request
MaxPartials == 2

\* capContent(s, max = 1900)
StreamCap == 1900
\* the completion mark is deleted after 60_000 ms
GraceMs == 60000
\* getStreamingConfig().interval when the configuration sets none
FlushIntervalMs == 1000

\* the payloads of stream-partial: a text delta or a tool chunk
PartialInputs ==
    { [textDelta |-> <<"H">>, toolChunk |-> <<>>],
      [textDelta |-> <<" ", "w">>, toolChunk |-> <<>>],
      [textDelta |-> <<>>, toolChunk |-> <<"t">>] }

\* payload.fullText of stream-completed
FullText == <<"F">>

WhiteSpace == {" ", "\n", "\t"}

RECURSIVE TrimStart(_)
TrimStart(s) ==
    IF s # <<>> /\ Head(s) \in WhiteSpace THEN TrimStart(Tail(s)) ELSE s

RECURSIVE TrimEnd(_)
TrimEnd(s) ==
    IF s # <<>> /\ s[Len(s)] \in WhiteSpace
    THEN TrimEnd(SubSeq(s, 1, Len(s) - 1))
    ELSE s

\* String.prototype.trim
Trim(s) == TrimEnd(TrimStart(s))

\* capContent(s, max)
CapContent(s, max) ==
    IF Len(s) > max THEN SubSeq(s, 1, max - 3) \o <<".", ".", ".">> ELSE s

\* flushNow: `${toolBuffer}${toolBuffer && buffer ? "\n" : ""}${buffer}`.trim()
FlushText(toolBuffer, buffer) ==
    Trim(toolBuffer \o (IF toolBuffer # <<>> /\ buffer # <<>> THEN <<"\n">> ELSE <<>>)
                    \o buffer)

\* onStreamPartial: s.toolBuffer += (s.toolBuffer ? "\n" : "") + toolChunk
AppendTool(toolBuffer, toolChunk) ==
    IF toolChunk # <<>>
    THEN toolBuffer \o (IF toolBuffer # <<>> THEN <<"\n">> ELSE <<>>) \o toolChunk
    ELSE toolBuffer

\* onStreamPartial: s.buffer += textDelta
AppendText(buffer, textDelta) == buffer \o textDelta

\* onStreamStarted: the state object before the placeholder is posted;
\* deleted is history: delete() was called on its placeholder
NewState ==
    [buffer |-> <<>>, toolBuffer |-> <<>>, timer |-> FALSE,
     thinkingMessage |-> FALSE, mode |-> scfg.mode, deleted |-> FALSE]

\* a handler invocation waiting at an await; obj is the state object it
\* holds (0 = undefined), rtool / rbuf the buffers its flush has read
Handler(kind, pc, id, obj) ==
    [kind |-> kind, pc |-> pc, id |-> id, obj |-> obj, rtool |-> <<>>, rbuf |-> <<>>,
     payload |-> NoPayload]

RemoveAt(seq, i) == SubSeq(seq, 1, i - 1) \o SubSeq(seq, i + 1, Len(seq))

\* a timer set by scheduleFlush for state object k; deltas and tools are
\* history: what onStreamPartial appended while the timer was pending
FlushTimer(id, k, p) ==
    [kind |-> "flush", id |-> id, obj |-> k, delay |-> FlushIntervalMs,
     deltas |-> p.textDelta, tools |-> p.toolChunk]

\* the timer set in the finally block of a terminal handler
PurgeTimer(id) ==
    [kind |-> "purge", id |-> id, obj |-> 0, delay |-> GraceMs,
     deltas |-> <<>>, tools |-> <<>>]

\* clearTimeout(st.timer)
ClearFlushTimer(ts, k) ==
    SelectSeq(ts, LAMBDA tm : ~(tm.kind = "flush" /\ tm.obj = k))

\* history kept on the pending timer of object k
NoteDelta(ts, k, p) ==
    [i \in 1..Len(ts) |->
        IF ts[i].kind = "flush" /\ ts[i].obj = k
        THEN [ts[i] EXCEPT !.deltas = @ \o p.textDelta, !.tools = @ \o p.toolChunk]
        ELSE ts[i]]

KeepMark(set, id) == set
\* this.completedStreamIds.add(id)
MarkCompleted(set, id) == set \cup {id}

\* onStreamStarted(id) up to its first await: with the placeholder enabled
\* the state is stored only after the send has settled
OnStreamStarted(id, os, hs, ss) ==
    LET k == Len(os) + 1
    IN  IF scfg.showThinking
        THEN [objs |-> Append(os, NewState),
              handlers |-> Append(hs, Handler("started", "st_send", id, k)),
              streamStates |-> ss]
        ELSE [objs |-> Append(os, NewState),
              handlers |-> hs,
              streamStates |-> [ss EXCEPT ![id] = k]]

\* the terminal handlers: streamStates.delete(id); completedStreamIds.add(id);
\* setTimeout(() => completedStreamIds.delete(id), 60_000)
Terminate(id) ==
    /\ streamStates' = [streamStates EXCEPT ![id] = 0]
    /\ completedStreamIds' = MarkCompleted(completedStreamIds, id)
    /\ pendingTimers' = Append(pendingTimers, PurgeTimer(id))

Sent(k, via, text) == [k |-> k, via |-> via, text |-> text]

\* a timer set earlier with a delay that is not longer fires first
CanFire(i) ==
    \A j \in 1..(i - 1) : pendingTimers[j].delay > pendingTimers[i].delay

\* a terminal handler (stream-completed or stream-error) is still running
TerminalInFlight(id) ==
    \E i \in 1..Len(handlers) :
        handlers[i].id = id /\ handlers[i].kind \in {"completed", "error"}

PurgePending(id) ==
    \E i \in 1..Len(pendingTimers) :
        pendingTimers[i].kind = "purge" /\ pendingTimers[i].id = id

FlushPending(id) ==
    \E i \in 1..Len(pendingTimers) :
        pendingTimers[i].kind = "flush" /\ pendingTimers[i].id = id

\* the grace window of the request's terminal event is over
GraceOver(id) ==
    ev.phase = "ended" /\ ~TerminalInFlight(id) /\ ~PurgePending(id)

----------------------------------------------------------------------------
(***************************************************************************)
(* Part B: the events, in the order the worker actor emits them            *)
(***************************************************************************)
\* handleStreamEvent: stream-started
StreamStarted(id) ==
    /\ ev.phase = "idle"
    /\ ev' = [ev EXCEPT !.phase = "streaming"]
    /\ LET r == OnStreamStarted(id, objs, handlers, streamStates)
       IN  /\ objs' = r.objs
           /\ handlers' = r.handlers
           /\ streamStates' = r.streamStates
    /\ UNCHANGED <<scfg, completedStreamIds, pendingTimers, surface, actorVars, fnVars>>

\* onStreamPartial(id, channelId, p), which has no await
OnStreamPartial(id, p) ==
    /\ LET r == IF streamStates[id] = 0
                THEN OnStreamStarted(id, objs, handlers, streamStates)
                ELSE [objs |-> objs, handlers |-> handlers,
                      streamStates |-> streamStates]
           s == r.streamStates[id]
       IN  /\ handlers' = r.handlers
           /\ streamStates' = r.streamStates
           /\ IF s = 0
              THEN /\ objs' = r.objs
                   /\ UNCHANGED pendingTimers
              ELSE /\ objs' = [r.objs EXCEPT
                                 ![s].toolBuffer = AppendTool(@, p.toolChunk),
                                 ![s].buffer = AppendText(@, p.textDelta),
                                 ![s].timer = TRUE]
                   /\ pendingTimers' =
                         IF r.objs[s].timer
                         THEN NoteDelta(pendingTimers, s, p)
                         ELSE Append(pendingTimers, FlushTimer(id, s, p))
    /\ UNCHANGED <<scfg, completedStreamIds, surface, actorVars, fnVars>>

\* handleStreamEvent: stream-partial
StreamPartial(id, p) ==
    /\ ev.phase = "streaming"
    /\ ev.partials < MaxPartials
    /\ ev' = [ev EXCEPT !.partials = @ + 1]
    /\ OnStreamPartial(id, p)

\* where onStreamCompleted waits after its flush
AfterFlush(st) ==
    IF scfg.showThinking /\ st # 0 /\ objs[st].thinkingMessage
    THEN "co_delete"
    ELSE "co_final"

\* handleStreamEvent: stream-completed; onStreamCompleted up to its first
\* await that suspends
StreamCompleted(id) ==
    /\ ev.phase = "streaming"
    /\ ev' = [ev EXCEPT !.phase = "ended", !.term = "completed"]
    /\ LET st == streamStates[id]
           h == Handler("completed", AfterFlush(st), id, st)
       IN  IF st = 0
           THEN /\ handlers' = Append(handlers, h)
                /\ UNCHANGED <<objs, pendingTimers>>
           ELSE /\ objs' = [objs EXCEPT ![st].timer = FALSE]
                /\ pendingTimers' = ClearFlushTimer(pendingTimers, st)
                /\ handlers' = Append(handlers,
                      IF FlushText(objs[st].toolBuffer, objs[st].buffer) = <<>>
                      THEN h
                      ELSE [h EXCEPT !.pc = "co_flush",
                                     !.rtool = objs[st].toolBuffer,
                                     !.rbuf = objs[st].buffer])
    /\ UNCHANGED <<scfg, streamStates, completedStreamIds, surface, actorVars, fnVars>>

\* onStreamError: the text of the notice; fatal unless the payload says
\* fatal: false, "!" stands for the abort marker, "U" for "Unknown error"
AbortText(payload) ==
    IF payload.fatal # Some(FALSE)
    THEN <<"!">> \o (IF payload.message = Absent THEN <<"U">> ELSE payload.message[1])
    ELSE IF payload.message = Absent THEN <<>> ELSE payload.message[1]

\* onStreamError: the send of the notice is awaited
AbortAwaited(payload) == scfg.showAbort /\ AbortText(payload) # <<>>

\* onStreamError: streamStates.delete(id); completedStreamIds.add(id);
\* setTimeout(...), reached with no await in between
ErrorTerminate(id, timers) ==
    /\ streamStates' = [streamStates EXCEPT ![id] = 0]
    /\ completedStreamIds' = MarkCompleted(completedStreamIds, id)
    /\ pendingTimers' = Append(timers, PurgeTimer(id))

\* onStreamError up to its first await, or to its end when it awaits nothing
OnStreamError(id, payload) ==
    LET st == streamStates[id]
        cleared == IF st = 0 THEN pendingTimers ELSE ClearFlushTimer(pendingTimers, st)
        h == [Handler("error", "er_abort", id, st) EXCEPT !.payload = payload]
    IN  /\ objs' = IF st = 0 THEN objs ELSE [objs EXCEPT ![st].timer = FALSE]
        /\ IF st # 0 /\ objs[st].thinkingMessage
           THEN /\ handlers' = Append(handlers, [h EXCEPT !.pc = "er_delete"])
                /\ pendingTimers' = cleared
                /\ UNCHANGED <<streamStates, completedStreamIds>>
           ELSE IF AbortAwaited(payload)
           THEN /\ handlers' = Append(handlers, h)
                /\ pendingTimers' = cleared
                /\ UNCHANGED <<streamStates, completedStreamIds>>
           ELSE /\ ErrorTerminate(id, cleared)
                /\ UNCHANGED handlers
        /\ UNCHANGED <<scfg, surface, actorVars, fnVars>>

\* handleStreamEvent: stream-error with fatal: true, emitted from the catch
\* of the worker actor
StreamError(id) ==
    /\ ev.phase = "streaming"
    /\ \E p \in FatalPayloads :
          /\ ev' = [ev EXCEPT !.phase = "ended", !.term = "error", !.err = p]
          /\ OnStreamError(id, p)

\* handleStreamEvent: stream-error with fatal: false for an identifier that
\* has no request (the notices the worker actor emits for a command message)
StreamNotice(id) ==
    /\ ev.phase = "idle"
    /\ \E p \in NoticePayloads :
          /\ ev' = [ev EXCEPT !.phase = "ended", !.term = "notice", !.err = p]
          /\ OnStreamError(id, p)

\* handleActorResponse: the direct reply with the final text, which the
\* worker actor sends after it has emitted stream-completed
DirectReply(id) ==
    /\ ev.phase = "ended" /\ ev.term = "completed"
    /\ ~ev.reply
    /\ ~GraceOver(id)
    /\ ev' = [ev EXCEPT !.reply = TRUE]
    /\ surface' = IF streamStates[id] # 0 \/ id \in completedStreamIds
                  THEN surface
                  ELSE Append(surface, Sent("direct", "send", FullText))
    /\ UNCHANGED <<scfg, streamStates, objs, completedStreamIds, pendingTimers,
                   handlers, actorVars, fnVars>>

----------------------------------------------------------------------------
(***************************************************************************)
(* Part B: timers firing and awaited calls settling                        *)
(***************************************************************************)
\* onStreamStarted: withRetry(send placeholder) has settled (ok: posted);
\* this.streamStates.set(id, state)
StartedSendDone(i) ==
    /\ i \in 1..Len(handlers)
    /\ handlers[i].pc = "st_send"
    /\ \E ok \in BOOLEAN :
          objs' = [objs EXCEPT ![handlers[i].obj].thinkingMessage = ok]
    /\ streamStates' = [streamStates EXCEPT ![handlers[i].id] = handlers[i].obj]
    /\ handlers' = RemoveAt(handlers, i)
    /\ UNCHANGED <<scfg, completedStreamIds, pendingTimers, ev, surface, actorVars, fnVars>>

\* the callback of scheduleFlush: st.timer = undefined; flushNow(id) up to
\* its await (st is the object the timer was set for, flushNow reads the map)
FlushFire(i) ==
    /\ i \in 1..Len(pendingTimers)
    /\ pendingTimers[i].kind = "flush"
    /\ CanFire(i)
    /\ pendingTimers' = RemoveAt(pendingTimers, i)
    /\ objs' = [objs EXCEPT ![pendingTimers[i].obj].timer = FALSE]
    /\ LET id == pendingTimers[i].id
           st == streamStates[id]
       IN  IF st = 0 \/ FlushText(objs[st].toolBuffer, objs[st].buffer) = <<>>
           THEN UNCHANGED handlers
           ELSE handlers' = Append(handlers,
                    [Handler("flush", "fl_send", id, st) EXCEPT
                        !.rtool = objs[st].toolBuffer, !.rbuf = objs[st].buffer])
    /\ UNCHANGED <<scfg, streamStates, completedStreamIds, ev, surface, actorVars, fnVars>>

\* flushNow: what the send or edit puts on the chat surface
Delivery(h) ==
    Sent("flush",
         IF objs[h.obj].mode = "edit" /\ objs[h.obj].thinkingMessage
         THEN "edit" ELSE "send",
         CapContent(FlushText(h.rtool, h.rbuf), StreamCap))

\* flushNow: withRetry(edit or send) has settled; finally both buffers of
\* st are emptied
FlushSettledNoFinally(i) ==
    /\ i \in 1..Len(handlers)
    /\ handlers[i].pc \in {"fl_send", "co_flush"}
    /\ \E ok \in BOOLEAN :
          /\ surface' = IF ok THEN Append(surface, Delivery(handlers[i])) ELSE surface
          /\ ev' = [ev EXCEPT !.flushed = IF ok THEN "ok" ELSE "failed"]
          /\ objs' = IF ok
                     THEN [objs EXCEPT ![handlers[i].obj].buffer = <<>>,
                                       ![handlers[i].obj].toolBuffer = <<>>]
                     ELSE objs

\* flushed is history: how the last delivery of a flush ended
FlushSettled(i) ==
    /\ i \in 1..Len(handlers)
    /\ handlers[i].pc \in {"fl_send", "co_flush"}
    /\ \E ok \in BOOLEAN :
          /\ surface' = IF ok THEN Append(surface, Delivery(handlers[i])) ELSE surface
          /\ ev' = [ev EXCEPT !.flushed = IF ok THEN "ok" ELSE "failed"]
    /\ objs' = [objs EXCEPT ![handlers[i].obj].buffer = <<>>,
                            ![handlers[i].obj].toolBuffer = <<>>]

\* the flush started by a timer is over
FlushSendDone(i) ==
    /\ FlushSettled(i)
    /\ handlers[i].pc = "fl_send"
    /\ handlers' = RemoveAt(handlers, i)
    /\ UNCHANGED <<scfg, streamStates, completedStreamIds, pendingTimers,
                   actorVars, fnVars>>

\* onStreamCompleted: its flushNow is over
CompletedFlushDone(i) ==
    /\ FlushSettled(i)
    /\ handlers[i].pc = "co_flush"
    /\ handlers' = [handlers EXCEPT ![i].pc = AfterFlush(handlers[i].obj)]
    /\ UNCHANGED <<scfg, streamStates, completedStreamIds, pendingTimers,
                   actorVars, fnVars>>

\* onStreamCompleted: st.thinkingMessage.delete() has settled
CompletedDeleteDone(i) ==
    /\ i \in 1..Len(handlers)
    /\ handlers[i].pc = "co_delete"
    /\ handlers' = [handlers EXCEPT ![i].pc = "co_final"]
    /\ objs' = [objs EXCEPT ![handlers[i].obj].deleted = TRUE]
    /\ UNCHANGED <<scfg, streamStates, completedStreamIds, pendingTimers,
                   ev, surface, actorVars, fnVars>>

\* onStreamCompleted: the final text has been sent (or its send given up)
CompletedFinalDone(i) ==
    /\ i \in 1..Len(handlers)
    /\ handlers[i].pc = "co_final"
    /\ \E ok \in BOOLEAN :
          surface' = IF ok THEN Append(surface, Sent("final", "send", FullText))
                     ELSE surface
    /\ handlers' = [handlers EXCEPT ![i].pc = "co_done"]
    /\ UNCHANGED <<scfg, streamStates, objs, completedStreamIds, pendingTimers,
                   ev, actorVars, fnVars>>

\* onStreamCompleted: the "done" send has settled; finally
CompletedReturn(i) ==
    /\ i \in 1..Len(handlers)
    /\ handlers[i].pc = "co_done"
    /\ Terminate(handlers[i].id)
    /\ handlers' = RemoveAt(handlers, i)
    /\ UNCHANGED <<scfg, objs, ev, surface, actorVars, fnVars>>

\* onStreamError: st.thinkingMessage.delete() has settled
ErrorDeleteDone(i) ==
    /\ i \in 1..Len(handlers)
    /\ handlers[i].pc = "er_delete"
    /\ IF AbortAwaited(handlers[i].payload)
       THEN /\ handlers' = [handlers EXCEPT ![i].pc = "er_abort"]
            /\ UNCHANGED <<streamStates, completedStreamIds, pendingTimers>>
       ELSE /\ handlers' = RemoveAt(handlers, i)
            /\ ErrorTerminate(handlers[i].id, pendingTimers)
    /\ objs' = [objs EXCEPT ![handlers[i].obj].deleted = TRUE]
    /\ UNCHANGED <<scfg, ev, surface, actorVars, fnVars>>

\* onStreamError: withRetry(send(text)) has settled, its failure is ignored
ErrorReturn(i) ==
    /\ i \in 1..Len(handlers)
    /\ handlers[i].pc = "er_abort"
    /\ \E ok \in BOOLEAN :
          /\ surface' = IF ok
                        THEN Append(surface,
                                    Sent("abort", "send", AbortText(handlers[i].payload)))
                        ELSE surface
          /\ ev' = [ev EXCEPT !.abort = IF ok THEN "sent" ELSE "failed"]
    /\ ErrorTerminate(handlers[i].id, pendingTimers)
    /\ handlers' = RemoveAt(handlers, i)
    /\ UNCHANGED <<scfg, objs, actorVars, fnVars>>

\* setTimeout(() => this.completedStreamIds.delete(id), 60_000) fires
PurgeFire(i) ==
    /\ i \in 1..Len(pendingTimers)
    /\ pendingTimers[i].kind = "purge"
    /\ CanFire(i)
    /\ pendingTimers' = RemoveAt(pendingTimers, i)
    /\ completedStreamIds' = completedStreamIds \ {pendingTimers[i].id}
    /\ UNCHANGED <<scfg, streamStates, objs, handlers, ev, surface, actorVars, fnVars>>

MaxHandlers == MaxPartials + 2
MaxTimers == MaxPartials + 2

NextStream ==
    \/ \E id \in StreamIds : StreamStarted(id)
    \/ \E id \in StreamIds, p \in PartialInputs : StreamPartial(id, p)
    \/ \E id \in StreamIds : StreamCompleted(id)
    \/ \E id \in StreamIds : StreamError(id)
    \/ \E id \in StreamIds : StreamNotice(id)
    \/ \E id \in StreamIds : DirectReply(id)
    \/ \E i \in 1..MaxHandlers : StartedSendDone(i)
    \/ \E i \in 1..MaxTimers : FlushFire(i)
    \/ \E i \in 1..MaxHandlers : FlushSendDone(i)
    \/ \E i \in 1..MaxHandlers : CompletedFlushDone(i)
    \/ \E i \in 1..MaxHandlers : CompletedDeleteDone(i)
    \/ \E i \in 1..MaxHandlers : CompletedFinalDone(i)
    \/ \E i \in 1..MaxHandlers : CompletedReturn(i)
    \/ \E i \in 1..MaxHandlers : ErrorDeleteDone(i)
    \/ \E i \in 1..MaxHandlers : ErrorReturn(i)
    \/ \E i \in 1..MaxTimers : PurgeFire(i)

InitStream ==
    /\ InitActor
    /\ cfg = [bus |-> TRUE, streaming |-> TRUE, autoRetry |-> FALSE]
    /\ InitCoordinator
    /\ InitNoCall

SpecStream == InitStream /\ [][NextStream]_vars

----------------------------------------------------------------------------
(***************************************************************************)
(* Part B: the worker actor's onProgress callback feeding the coordinator. *)
(* ev.progress counts the progress events of the agent, ev.todo holds the  *)
(* stream-partial events the callback has still to emit for the current    *)
(* one, ev.last is history: the progress event and the position in it of   *)
(* the partial emitted last.                                               *)
(***************************************************************************)
\* The progress events of the agent: an assistant message with text, an
\* assistant message without text, a user message with two tool results, a
\* system message.  text and results are what the callback extracts.
ProgressEvents ==
    { [type |-> "assistant", text |-> <<"H">>, results |-> <<>>],
      [type |-> "assistant", text |-> <<>>, results |-> <<>>],
      [type |-> "user", text |-> <<>>, results |-> << <<"t">>, <<"u">> >>],
      [type |-> "system", text |-> <<>>, results |-> <<>>] }

\* the onProgress callback emitting the tool results last to first
OnProgressReversed(cm) ==
    IF cm.type = "assistant"
    THEN IF cm.text # <<>>
         THEN <<[textDelta |-> cm.text, toolChunk |-> <<>>, item |-> 1]>>
         ELSE <<>>
    ELSE IF cm.type = "user"
    THEN [i \in 1..Len(cm.results) |->
             [textDelta |-> <<>>, toolChunk |-> cm.results[Len(cm.results) + 1 - i],
              item |-> Len(cm.results) + 1 - i]]
    ELSE <<>>
\* the onProgress callback: the payloads of the stream-partial events it
\* emits for the progress event cm, in the order of its awaits (item is
\* history: the position in the content of cm a payload was made from)
OnProgress(cm) ==
    IF cm.type = "assistant"
    THEN IF cm.text # <<>>
         THEN <<[textDelta |-> cm.text, toolChunk |-> <<>>, item |-> 1]>>
         ELSE <<>>
    ELSE IF cm.type = "user"
    THEN [i \in 1..Len(cm.results) |->
             [textDelta |-> <<>>, toolChunk |-> cm.results[i], item |-> i]]
    ELSE <<>>

\* progress events of the agent for one request
MaxProgress == MaxPartials

\* for await (const message of response) await onProgress(message): the
\* agent yields cm once the callback for the previous event has returned
AgentProgress(cm) ==
    /\ ev.phase = "streaming"
    /\ ev.todo = <<>>
    /\ ev.progress < MaxProgress
    /\ ev.partials + Len(OnProgress(cm)) <= MaxPartials
    /\ ev' = [ev EXCEPT !.progress = @ + 1, !.todo = OnProgress(cm)]
    /\ UNCHANGED <<scfg, streamStates, objs, completedStreamIds, pendingTimers,
                   handlers, surface, actorVars, fnVars>>

\* await this.bus.emit(stream-partial): the next partial of the current
\* progress event reaches handleStreamEvent
EmitPartial(id) ==
    /\ ev.phase = "streaming"
    /\ ev.todo # <<>>
    /\ ev' = [ev EXCEPT !.partials = @ + 1, !.todo = Tail(@),
                        !.last = [n |-> ev.progress, k |-> Head(ev.todo).item]]
    /\ OnStreamPartial(id, Head(ev.todo))

\* the terminal event follows the last await of the callback
EmitCompleted(id) == ev.todo = <<>> /\ StreamCompleted(id)
EmitError(id) == ev.todo = <<>> /\ StreamError(id)

\* One request from the agent's progress events to the chat surface.
NextPipeline ==
    \/ \E id \in StreamIds : StreamStarted(id)
    \/ \E cm \in ProgressEvents : AgentProgress(cm)
    \/ \E id \in StreamIds : EmitPartial(id)
    \/ \E id \in StreamIds : EmitCompleted(id)
    \/ \E id \in StreamIds : EmitError(id)
    \/ \E id \in StreamIds : DirectReply(id)
    \/ \E i \in 1..MaxHandlers : StartedSendDone(i)
    \/ \E i \in 1..MaxTimers : FlushFire(i)
    \/ \E i \in 1..MaxHandlers : FlushSendDone(i)
    \/ \E i \in 1..MaxHandlers : CompletedFlushDone(i)
    \/ \E i \in 1..MaxHandlers : CompletedDeleteDone(i)
    \/ \E i \in 1..MaxHandlers : CompletedFinalDone(i)
    \/ \E i \in 1..MaxHandlers : CompletedReturn(i)
    \/ \E i \in 1..MaxHandlers : ErrorDeleteDone(i)
    \/ \E i \in 1..MaxHandlers : ErrorReturn(i)
    \/ \E i \in 1..MaxTimers : PurgeFire(i)

SpecPipeline == InitStream /\ [][NextPipeline]_vars

\* new is old with delta put at its end (possibly after a separator)
AppendedTo(old, new, delta) ==
    IF delta = <<>> THEN new = old
    ELSE /\ Len(new) >= Len(old) + Len(delta)
         /\ SubSeq(new, 1, Len(old)) = old
         /\ SubSeq(new, Len(new) - Len(delta) + 1, Len(new)) = delta

----------------------------------------------------------------------------
(***************************************************************************)
(* Part B: one request with the placeholder enabled and enough partial     *)
(* events for a session to be created, used and created again.             *)
(***************************************************************************)
\* stream-partial events of the request
MaxRestartPartials == 3

\* handleStreamEvent: stream-partial with a text delta
TextPartial(id) ==
    /\ ev.phase = "streaming"
    /\ ev.partials < MaxRestartPartials
    /\ ev' = [ev EXCEPT !.partials = @ + 1]
    /\ OnStreamPartial(id, [textDelta |-> <<"H">>, toolChunk |-> <<>>])

NextRestart ==
    \/ \E id \in StreamIds : StreamStarted(id)
    \/ \E id \in StreamIds : TextPartial(id)
    \/ \E id \in StreamIds : StreamCompleted(id)
    \/ \E id \in StreamIds : StreamError(id)
    \/ \E id \in StreamIds : DirectReply(id)
    \/ \E i \in 1..Len(handlers) : StartedSendDone(i)
    \/ \E i \in 1..Len(pendingTimers) : FlushFire(i)
    \/ \E i \in 1..Len(handlers) : FlushSendDone(i)
    \/ \E i \in 1..Len(handlers) : CompletedFlushDone(i)
    \/ \E i \in 1..Len(handlers) : CompletedDeleteDone(i)
    \/ \E i \in 1..Len(handlers) : CompletedFinalDone(i)
    \/ \E i \in 1..Len(handlers) : CompletedReturn(i)
    \/ \E i \in 1..Len(handlers) : ErrorDeleteDone(i)
    \/ \E i \in 1..Len(handlers) : ErrorReturn(i)
    \/ \E i \in 1..Len(pendingTimers) : PurgeFire(i)

\* the default configuration: placeholder on, edit mode
InitRestart ==
    /\ InitStream
    /\ scfg = [showThinking |-> TRUE, showAbort |-> TRUE, mode |-> "edit"]

SpecRestart == InitRestart /\ [][NextRestart]_vars

----------------------------------------------------------------------------
(***************************************************************************)
(* Part B: a !retry.  retryLast emits its "retrying" notice under the      *)
(* identifier of the command (README-ja.md 838-843) and then lets the      *)
(* queue run the clone, whose originalMessageId is that same identifier    *)
(* (815-827): the coordinator gets the notice first and the events of the  *)
(* re-execution after it, all for one identifier.                          *)
(***************************************************************************)
\* emitStreamNotice of retryLast: message set, fatal: false
RetryingPayload == [message |-> Some(<<"R">>), fatal |-> Some(FALSE)]

\* handleStreamEvent: the stream-error that carries the "retrying" notice
RetryingNotice(id) ==
    /\ ev.phase = "idle"
    /\ ev.term = ""
    /\ ev' = [ev EXCEPT !.term = "retrying", !.err = RetryingPayload]
    /\ OnStreamError(id, RetryingPayload)

\* handleStreamEvent: stream-started of the re-execution
RetryStarted(id) ==
    /\ ev.term = "retrying"
    /\ StreamStarted(id)

NextRetryLast ==
    \/ \E id \in StreamIds : RetryingNotice(id)
    \/ \E id \in StreamIds : RetryStarted(id)
    \/ \E id \in StreamIds, p \in PartialInputs : StreamPartial(id, p)
    \/ \E id \in StreamIds : StreamCompleted(id)
    \/ \E id \in StreamIds : StreamError(id)
    \/ \E id \in StreamIds : DirectReply(id)
    \/ \E i \in 1..Len(handlers) : StartedSendDone(i)
    \/ \E i \in 1..Len(pendingTimers) : FlushFire(i)
    \/ \E i \in 1..Len(handlers) : FlushSendDone(i)
    \/ \E i \in 1..Len(handlers) : CompletedFlushDone(i)
    \/ \E i \in 1..Len(handlers) : CompletedDeleteDone(i)
    \/ \E i \in 1..Len(handlers) : CompletedFinalDone(i)
    \/ \E i \in 1..Len(handlers) : CompletedReturn(i)
    \/ \E i \in 1..Len(handlers) : ErrorDeleteDone(i)
    \/ \E i \in 1..Len(handlers) : ErrorReturn(i)
    \/ \E i \in 1..Len(pendingTimers) : PurgeFire(i)

SpecRetryLast == InitStream /\ [][NextRetryLast]_vars

\* the flush timers pending for an originating identifier
FlushTimersOf(id) ==
    {i \in 1..Len(pendingTimers) :
        pendingTimers[i].kind = "flush" /\ pendingTimers[i].id = id}

\* C24: at most one flush timer is outstanding per originating identifier,
\* also when the session state of the identifier is created a second time.
C24_OneFlushTimer == \A id \in StreamIds : Cardinality(FlushTimersOf(id)) <= 1

\* C25: a stream-partial for an identifier that has no session creates the
\* session, appends its delta to the buffers of the new session and
\* schedules a flush, in every configuration.
C25_ImplicitStart ==
    [][\A id \in StreamIds :
          (ev'.partials = ev.partials + 1 /\ streamStates[id] = 0) =>
              /\ streamStates'[id] # 0
              /\ \E p \in PartialInputs :
                    /\ objs'[streamStates'[id]].buffer = p.textDelta
                    /\ objs'[streamStates'[id]].toolBuffer = p.toolChunk
              /\ FlushTimersOf(id)' # {}]_vars

\* C26: once the terminal event of an identifier has been handled and every
\* handler started for the identifier has finished, the identifier has no
\* session, also when the started handler was still posting its placeholder
\* when the terminal event arrived.
C26_TerminalDestroysSession ==
    \A id \in StreamIds :
        (/\ ev.phase = "ended"
         /\ \A i \in 1..Len(handlers) : handlers[i].id # id)
            => streamStates[id] = 0

\* the request's terminal event was a stream-error
ErrorArrived == ev.phase = "ended" /\ ev.term \in {"error", "notice"}

\* the notice the claim expects for a payload: the hint under the abort
\* marker when the error is fatal, the plain text when it is not
ExpectedNotice(payload) ==
    IF payload.fatal = Some(TRUE)
    THEN <<"!">> \o payload.message[1]
    ELSE payload.message[1]

\* C27: handling stream-error for an identifier cancels its pending flush
\* timer, deletes the placeholder if present, posts the abort notice with the
\* hint (fatal) or the non-empty plain text (non-fatal), then destroys the
\* session and records the identifier in the completed-set; no flush of
\* buffered deltas starts afterwards.
C27_ErrorHandling ==
    [][\A id \in StreamIds :
          /\ (~ErrorArrived /\ ErrorArrived') =>
                /\ FlushTimersOf(id)' = {}
                /\ (streamStates[id] # 0 /\ objs[streamStates[id]].thinkingMessage) =>
                      \E i \in 1..Len(handlers') :
                          handlers'[i].kind = "error" /\ handlers'[i].pc = "er_delete"
          /\ (/\ ErrorArrived' /\ ~TerminalInFlight(id)'
              /\ (~ErrorArrived \/ TerminalInFlight(id))) =>
                /\ streamStates'[id] = 0
                /\ id \in completedStreamIds'
                /\ IF ExpectedNotice(ev'.err) # <<>>
                   THEN /\ ev'.abort # "none"
                        /\ ev'.abort = "sent" =>
                              surface'[Len(surface')] =
                                  Sent("abort", "send", ExpectedNotice(ev'.err))
                   ELSE ev'.abort = "none"
          /\ ErrorArrived =>
                \A i \in 1..Len(handlers') :
                    handlers'[i].kind = "flush" =>
                        \E j \in 1..Len(handlers) : handlers[j] = handlers'[i]]_vars

\* the delivery of the flush that handler i awaits settles on this step
FlushSettles(i) ==
    /\ handlers[i].pc \in {"fl_send", "co_flush"}
    /\ FlushText(handlers[i].rtool, handlers[i].rbuf) # <<>>
    /\ \/ handlers' = RemoveAt(handlers, i)
       \/ Len(handlers') = Len(handlers) /\ handlers'[i].pc # handlers[i].pc

\* C28: a flush with non-empty content leaves the text buffer and the tool
\* buffer of its session empty, whether its delivery succeeded or failed; a
\* failed delivery does not raise out of the flush (the completion handler
\* goes on) and changes neither the session map nor any timer.
C28_FlushEmptiesBuffers ==
    [][\A i \in 1..Len(handlers) :
          FlushSettles(i) =>
              LET o == handlers[i].obj
              IN  /\ objs'[o].buffer = <<>>
                  /\ objs'[o].toolBuffer = <<>>
                  /\ ev'.flushed = "failed" =>
                        /\ streamStates' = streamStates
                        /\ pendingTimers' = pendingTimers
                        /\ objs'[o].timer = objs[o].timer
                        /\ handlers[i].pc = "co_flush" =>
                              /\ Len(handlers') = Len(handlers)
                              /\ handlers'[i].pc = AfterFlush(o)]_vars

\* a delivery has failed and the session it belongs to is still there, with
\* both buffers empty
C28_Witness ==
    /\ ev.flushed = "failed"
    /\ surface = <<>>
    /\ \E id \in StreamIds :
          /\ streamStates[id] # 0
          /\ objs[streamStates[id]].buffer = <<>>
          /\ objs[streamStates[id]].toolBuffer = <<>>
    /\ \A i \in 1..Len(handlers) : handlers[i].kind # "flush"

\* drainQueue takes the message at the head of the queue on this step
Takes(m) ==
    /\ queue # <<>>
    /\ m = Head(queue)
    /\ Len(started') = Len(started) + 1
    /\ started'[Len(started')].id = m.id

\* the identifiers of the messages seen so far
UsedIds == (1..delivered) \cup IdsOf(queue) \cup {started[i].id : i \in 1..Len(started)}

\* C30: the last-request cache has one slot per conversation, last write
\* wins: the slot of c is written only when a content message of c is taken
\* for processing and then holds that message for as long as it is processed,
\* other slots staying as they are; a !retry leaves the slot as it is and puts
\* at the head of the queue a request with the text and the attachments of
\* the slot under an identifier not used before.
C30_LastWriteWins ==
    [][/\ \A t \in TaskIds :
            (/\ tasks'[t].stack # <<>>
             /\ Head(tasks'[t].stack).type = "discord-message"
             /\ Head(tasks'[t].stack).ch # NoCh) =>
                LET m == Head(tasks'[t].stack)
                IN  lastRequestByChannel'[m.ch] = [m EXCEPT !.oid = OriginalMessageId(m)]
       /\ \A c \in Channels :
            lastRequestByChannel'[c] # lastRequestByChannel[c] =>
                /\ queue # <<>>
                /\ Takes(Head(queue))
                /\ Head(queue).type = "discord-message"
                /\ Head(queue).ch = c
                /\ lastRequestByChannel'[c] =
                      [Head(queue) EXCEPT !.oid = OriginalMessageId(Head(queue))]
       /\ (/\ queue # <<>>
           /\ Takes(Head(queue))
           /\ Head(queue).type = "discord-command"
           /\ Head(queue).cmd = "!retry"
           /\ Head(queue).ch # NoCh
           /\ lastRequestByChannel[Head(queue).ch] # NoMsg) =>
              LET stored == lastRequestByChannel[Head(queue).ch]
                  clone == Head(queue')
              IN  /\ lastRequestByChannel' = lastRequestByChannel
                  /\ Tail(queue') = Tail(queue)
                  /\ clone.type = "discord-message"
                  /\ clone.text = stored.text
                  /\ clone.natt = stored.natt
                  /\ clone.ch = stored.ch
                  /\ clone.id \notin UsedIds
                  /\ clone.id > delivered]_vars

\* two !retry commands in a row for c1 have each had their re-execution taken
\* for processing, under different identifiers, with the text of message 1
C30_Witness ==
    \E i, j \in 1..Len(started) :
        /\ i < j
        /\ started[i].of # 0
        /\ started[j].of # 0
        /\ started[i].of # started[j].of
        /\ started[i].id # started[j].id
        /\ lastRequestByChannel["c1"].id = started[j].id
        /\ lastRequestByChannel["c1"].text = 1

\* C34: a content message rejected as "no content" (empty text, no
\* attachments) leaves the last-request cache as it was, so that the slot a
\* following !retry clones still holds the last request that reached the
\* agent.
C34_EmptyLeavesCache ==
    [][(/\ queue # <<>>
        /\ Takes(Head(queue))
        /\ Head(queue).type = "discord-message"
        /\ NoContent(Head(queue))) =>
            lastRequestByChannel' = lastRequestByChannel]_vars

\* the processMessage frame of task t ends on this step, by return or throw
FrameEnds(t) ==
    /\ tasks[t].stack # <<>>
    /\ Len(tasks'[t].stack) < Len(tasks[t].stack)

\* C31: a failed agent call schedules a cooldown timer exactly when the
\* failure is classified USAGE_LIMIT and the conversation is known: the frame
\* of such a failure ends with the timer of its message pending for the
\* conversation, and every other frame ends with the timers as they were.
C31_CooldownOnUsageLimit ==
    [][\A t \in TaskIds :
          FrameEnds(t) =>
              IF tasks[t].kind = "USAGE_LIMIT" /\ Cur(t).ch # NoCh
              THEN /\ cooldownTimerByChannel'[Cur(t).ch] = Cur(t).id
                   /\ \E tm \in cooldownTimers' :
                         /\ tm.tid = Cur(t).id
                         /\ tm.ch = Cur(t).ch
                         /\ tm.oid = OriginalMessageId(Cur(t))
              ELSE /\ cooldownTimers' = cooldownTimers
                   /\ cooldownTimerByChannel' = cooldownTimerByChannel]_vars

----------------------------------------------------------------------------
(***************************************************************************)
(* Part B: properties of the streaming coordinator                         *)
(***************************************************************************)
\* C6 as stated: when a flush timer fires, the text deltas that arrived
\* while it was pending (no tool chunk among them) are delivered by one
\* flush whose content is their concatenation, in arrival order.
C6_OneFlushAllDeltas ==
    [][\A i \in 1..Len(pendingTimers) :
          (FlushFire(i) /\ pendingTimers[i].tools = <<>>)
              => /\ Len(handlers') = Len(handlers) + 1
                 /\ Delivery(handlers'[Len(handlers')]).text
                        = Trim(pendingTimers[i].deltas)]_vars

\* C7 as stated: the content a flush clears from the buffers is the
\* content it read and handed to delivery.
C7_ClearsWhatItRead ==
    [][\A i \in 1..Len(handlers) :
          (FlushSendDone(i) \/ CompletedFlushDone(i))
              => /\ objs[handlers[i].obj].buffer = handlers[i].rbuf
                 /\ objs[handlers[i].obj].toolBuffer = handlers[i].rtool]_vars

\* C8 as stated: when the handler of stream-completed returns, no flush
\* timer is pending for the identifier and the identifier has no session.
C8_CompletedLeavesNothing ==
    [][\A i \in 1..Len(handlers) :
          CompletedReturn(i)
              => /\ streamStates'[handlers[i].id] = 0
                 /\ \A j \in 1..Len(pendingTimers') :
                       ~(pendingTimers'[j].kind = "flush"
                         /\ pendingTimers'[j].id = handlers[i].id)]_vars

\* C9: a terminal handler puts the identifier in the completed-set in the
\* step that destroys the session, and the identifier is in the set only
\* while a purge timer of a grace window is still pending.
C9_MarkedThenPurged ==
    [][/\ \A i \in 1..Len(handlers) :
             (CompletedReturn(i) \/ ErrorReturn(i))
                 => /\ streamStates'[handlers[i].id] = 0
                    /\ handlers[i].id \in completedStreamIds'
       /\ \A id \in completedStreamIds' :
             \E j \in 1..Len(pendingTimers') :
                 pendingTimers'[j].kind = "purge" /\ pendingTimers'[j].id = id]_vars

\* the session has completed, its grace window has elapsed and the mark
\* is gone
C9_Witness ==
    \E id \in StreamIds :
        /\ ev.term = "completed"
        /\ GraceOver(id)
        /\ streamStates[id] = 0
        /\ id \notin completedStreamIds

\* C10 as stated: the final text reaches the chat surface once; the direct
\* reply that arrives before the grace window ends is suppressed.
FinalDeliveries ==
    {i \in 1..Len(surface) : surface[i].k \in {"final", "direct"}}
C10_FinalOnce == Cardinality(FinalDeliveries) <= 1

\* C14: a conversation has at most one pending cooldown timer, the one the
\* map records for it; a timer that a later scheduling superseded is not
\* pending any more, so its callback never runs.
C14_OneTimerPerConversation ==
    \A ch \in Channels :
        LET pending == {tm \in cooldownTimers : tm.ch = ch}
        IN  /\ Cardinality(pending) <= 1
            /\ \A tm \in pending :
                  /\ cooldownTimerByChannel[ch] = tm.tid
                  /\ \A other \in cooldownTimers : other.tid # tm.prev

\* a scheduling replaced the pending timer of its conversation
C14_Witness == \E tm \in cooldownTimers : tm.prev # 0

\* the cooldown timers pending for a conversation
TimersOf(timers, ch) == {tm \in timers : tm.ch = ch}

\* C15: when a manual !retry for a conversation with a cached request is
\* processed, retryLast leaves no cooldown timer pending for that conversation
\* and the timers of the other conversations as they were; none is pending
\* for it until the processing of the command has returned.
C15_RetryClearsCooldown ==
    [][\A t \in HmTasks :
          /\ (tasks[t].pc = "loop" /\ tasks'[t].pc = "retry_notice") =>
                LET ch == Head(queue).ch
                IN  /\ TimersOf(cooldownTimers', ch) = {}
                    /\ cooldownTimerByChannel'[ch] = 0
                    /\ \A o \in Channels \ {ch} :
                          /\ TimersOf(cooldownTimers', o) = TimersOf(cooldownTimers, o)
                          /\ cooldownTimerByChannel'[o] = cooldownTimerByChannel[o]
          /\ tasks[t].pc = "retry_notice" =>
                TimersOf(cooldownTimers', Cur(t).ch) = {}]_vars

\* a manual !retry is being processed and has cleared the pending cooldown
\* timer of its conversation
C15_Witness ==
    \E t \in HmTasks :
        /\ tasks[t].pc = "retry_notice"
        /\ IsRetry(Cur(t))
        /\ tasks[t].cleared # 0

\* the re-executions enqueued so far: waiting in the queue or started
Clones ==
    {[id |-> queue[i].id, of |-> queue[i].of, ch |-> queue[i].ch] :
        i \in {j \in 1..Len(queue) : queue[j].of # 0}}
        \cup {started[i] : i \in {j \in 1..Len(started) : started[j].of # 0}}

\* C16: once a manual !retry has re-enqueued the cached request of a
\* conversation, a cooldown that was scheduled for the conversation before
\* that does not enqueue a second re-execution: no re-execution made by a
\* timer callback follows a manual one that was made after the timer was set.
C16_ManualRetryWins ==
    \A x, y \in Clones :
        ~ /\ x.of > 0
          /\ y.of < 0
          /\ x.ch = y.ch
          /\ tasks[0 - y.of].at <= x.id
          /\ x.id < y.id

\* the events of a kind among the calls a frame has issued
Occurrences(issued, kinds) == {i \in 1..Len(issued) : issued[i] \in kinds}

\* the step ends the processing of a content message on the streaming path
StreamingFrameEnds(t) ==
    /\ tasks[t].pc \in {"emit_started", "query", "emit_completed", "send_response",
                        "catch_notice", "catch_send"}
    /\ tasks'[t].pc \in {"loop", "done", "failed"}

\* C21: a content message processed on the streaming path has stream-started
\* emitted before the agent client is invoked and then exactly one terminal
\* event: stream-completed when the agent call succeeded, stream-error with
\* the fatal flag when it failed, with or without a conversation identifier.
C21_StartedThenOneTerminal ==
    [][\A t \in HmTasks :
          StreamingFrameEnds(t) =>
              LET issued == tasks[t].issued
                  terminal == Occurrences(issued, {"stream-completed", "fatal-notice"})
              IN  /\ issued # <<>> /\ issued[1] = "stream-started"
                  /\ Occurrences(issued, {"query"}) \subseteq {2}
                  /\ Cardinality(terminal) = 1
                  /\ \A i \in terminal : issued[i] = "stream-completed"
                        <=> Occurrences(issued, {"stream-completed"}) # {}]_vars

\* the step ends the processing of a content message on the non-streaming
\* path
FallbackFrameEnds(t) ==
    /\ tasks[t].pc \in {"ns_query", "ns_send_response", "ns_err_send", "ns_err_notice",
                        "ns_fallback_send"}
    /\ tasks'[t].pc \in {"loop", "done", "failed"}

\* The direct replies of a frame whose bus.send did not reject: on the
\* non-streaming path an error reply follows a claude-response only when the
\* send of the claude-response rejected, and a frame fails only when its last
\* send rejected.
RepliesDelivered(issued, failed) ==
    Cardinality(Occurrences(issued, {"claude-response", "error"}))
        - (IF Occurrences(issued, {"claude-response"}) # {}
              /\ Occurrences(issued, {"error"}) # {} THEN 1 ELSE 0)
        - (IF failed THEN 1 ELSE 0)

Fires(tm, t) ==
    /\ tm \in cooldownTimers
    /\ tm \notin cooldownTimers'
    /\ fires' = fires + 1
    /\ t = MaxTasks + fires + 1

\* C32 as stated: the callback of a cooldown timer emits exactly one
\* non-fatal notice.
C32_OneNoticePerFiring ==
    \A t \in TimerTasks :
        tasks[t].stack = <<>> => Cardinality(Occurrences(tasks[t].issued, {"notice"})) <= 1

\* C32: a cooldown timer that fires removes its own entry from the
\* per-conversation map and emits one non-fatal notice of its own; after the
\* notice it calls retryLast only if the auto-retry flag is set (retryLast then
\* puts the clone at the head of the queue and emits its "retrying" notice);
\* with the flag unset the callback ends there: it adds no message to the
\* mailbox, emits nothing more and never runs the drain loop.
C32_NoticeThenOptIn ==
    [][/\ \A tm \in cooldownTimers, t \in TimerTasks :
            Fires(tm, t) =>
                /\ cooldownTimerByChannel[tm.ch] = tm.tid
                /\ cooldownTimerByChannel'[tm.ch] = 0
                /\ tasks'[t].pc = "cd_notice"
                /\ tasks'[t].issued = <<"notice">>
                /\ queue' = queue
       /\ \A t \in TimerTasks :
            (tasks[t].pc = "cd_notice" /\ tasks'[t].pc # "cd_notice") =>
                IF cfg.autoRetry
                THEN lastRequestByChannel[tasks[t].ch] # NoMsg =>
                        /\ Len(queue') = Len(queue) + 1
                        /\ Tail(queue') = queue
                        /\ Head(queue').text = lastRequestByChannel[tasks[t].ch].text
                        /\ Head(queue').natt = lastRequestByChannel[tasks[t].ch].natt
                ELSE /\ queue' = queue
                     /\ tasks'[t].pc = "done"
                     /\ tasks'[t].issued = <<>>
       /\ ~cfg.autoRetry =>
            \A t \in TimerTasks :
                /\ tasks'[t].pc \in {"none", "cd_notice", "done"}
                /\ tasks'[t].stack = <<>>]_vars

\* with the flag unset a timer has fired and its callback is over, the
\* mailbox empty and no drain loop running
C32_Witness ==
    /\ ~cfg.autoRetry
    /\ fires >= 1
    /\ \E t \in TimerTasks : tasks[t].pc = "done"
    /\ queue = <<>>
    /\ ~running

\* ClaudeCodeActor.stop(): await this.adapter.stop(), which aborts the
\* controller of the agent client; the queue, the cache and the cooldown
\* timers are left as they are
StopActor ==
    /\ ~stopped
    /\ stopped' = TRUE
    /\ UNCHANGED <<streamVars, fnVars, cfg, queue, running, lastRequestByChannel,
                   cooldownTimerByChannel, cooldownTimers, tasks, nextId, fires,
                   delivered, started, dlv>>

\* The actor with its cooldown timers, stopped at some moment.
NextStop ==
    \/ NextActor
    \/ StopActor

SpecStop == InitTimed /\ [][NextStop]_vars

\* C20: stopping a component clears its outstanding timers; for the worker
\* actor: once stop() has been called no cooldown timer is pending, so no
\* callback (notice or automatic retry) runs after it.
C20_StopClearsTimers == stopped => cooldownTimers = {}

\* C35: an identifier recorded in completedStreamIds stays in it for the
\* whole grace window counted from its most recent completion or error.  The
\* purge timers all have the delay GraceMs and fire in the order they were
\* set, so while any of them is pending for the identifier the one set by its
\* most recent terminal event or notice is pending as well, and the window
\* counted from that event is not over.
C35_MarkedForTheGraceWindow ==
    \A id \in StreamIds : PurgePending(id) => id \in completedStreamIds

\* the re-execution of a !retry has a session stored by its onStreamStarted
\* and has had no partial yet
RetrySessionStored(id) ==
    /\ ev.term = "retrying"
    /\ ev.phase = "streaming"
    /\ ev.partials = 0
    /\ objs # <<>>
    /\ \A i \in 1..Len(handlers) : handlers[i].kind # "started"

\* C36: the "retrying" notice emitted under the identifier of a !retry never
\* destroys the streaming session of the re-executed request: in whatever
\* order the send of the notice and the post of the placeholder settle, the
\* session that the stream-started of the re-execution has stored is in
\* streamStates when the first partial arrives.
C36_NoticeSparesSession ==
    [][\A id \in StreamIds :
          (RetrySessionStored(id) /\ ev'.partials = 1) => streamStates[id] = 1]_vars

\* C37: once the terminal event of an identifier has been handled and all
\* handlers have finished, delete() has been called on every placeholder
\* posted for it, also when a partial arrived while onStreamStarted was still
\* posting its placeholder.
C37_NoPlaceholderLeft ==
    (ev.phase = "ended" /\ handlers = <<>>) =>
        \A k \in 1..Len(objs) : objs[k].thinkingMessage => objs[k].deleted

\* two flushes share content: the buffers one of them read are the beginning
\* of the buffers the other read from the same state object
SameContent(g, h) ==
    /\ g.obj = h.obj
    /\ Len(g.rtool) <= Len(h.rtool)
    /\ Len(g.rbuf) <= Len(h.rbuf)
    /\ g.rtool = SubSeq(h.rtool, 1, Len(g.rtool))
    /\ g.rbuf = SubSeq(h.rbuf, 1, Len(g.rbuf))

\* C38: each delta appended to the buffers of a session is handed to
\* delivery by at most one flush: no two flushes whose deliveries are awaited
\* at the same time, that of a timer and the final one of onStreamCompleted
\* included, have read the same buffered content.
C38_OneFlushPerDelta ==
    \A i, j \in 1..Len(handlers) :
        (/\ i # j
         /\ handlers[i].pc \in {"fl_send", "co_flush"}
         /\ handlers[j].pc \in {"fl_send", "co_flush"}) =>
            ~SameContent(handlers[i], handlers[j])

----------------------------------------------------------------------------
(***************************************************************************)
(* Part C: pure functions.  A specification draws the argument in its      *)
(* initial state and applies the function once.                            *)
(***************************************************************************)
\* the components at rest while a function is applied
InitQuiet ==
    /\ InitActor
    /\ cfg = [bus |-> TRUE, streaming |-> TRUE, autoRetry |-> FALSE]
    /\ InitCoordinator
    /\ DefaultConfig
    /\ adapter = <<>>

MathMax(a, b) == IF a >= b THEN a ELSE b
MathMin(a, b) == IF a <= b THEN a ELSE b

\* grid of retry-after values tried besides the boundary values
MaxDelaySteps == 50

\* retryAfterMs as parseClaudeError passes it on: undefined or a number,
\* which detectUsageLimitReset never makes negative
RetryAfterInputs ==
    {Absent}
        \cup {Some(x) : x \in {0, 1, 5000, 59999, 60000, 60001, 1799999, 1800000,
                               1800001, 21599999, 21600000, 21600001, 999999999}}
        \cup {Some(k * 450000) : k \in 0..MaxDelaySteps}

CooldownDelayNoFloor(retryAfterMs) ==
    MathMin(IF retryAfterMs = Absent THEN 30 * 60000 ELSE retryAfterMs[1],
            6 * 60 * 60000)
\* scheduleCooldownNotice:
\* Math.min(Math.max(retryAfterMs ?? 30 * 60_000, 60_000), 6 * 60 * 60_000)
CooldownDelay(retryAfterMs) ==
    MathMin(MathMax(IF retryAfterMs = Absent THEN 30 * 60000 ELSE retryAfterMs[1],
                    60000),
            6 * 60 * 60000)

InitCooldown ==
    /\ InitQuiet
    /\ input \in {<<r>> : r \in RetryAfterInputs}
    /\ output = NoOutput

\* scheduleCooldownNotice(channelId, originalMessageId, retryAfterMs) computes
\* the delay of its timer
ApplyCooldownDelay ==
    /\ output = NoOutput
    /\ output' = <<CooldownDelay(input[1])>>
    /\ UNCHANGED <<input, adapter, actorVars, streamVars>>

SpecCooldown == InitCooldown /\ [][ApplyCooldownDelay]_vars

\* C13: the delay is min(max(retryAfter, 60000), 21600000), an absent
\* retryAfter counting as 1800000: always in [60000, 21600000], 60000 below
\* the interval, 21600000 above it, the input itself inside it; 5000 gives
\* 60000 and 999999999 gives 21600000.
C13_DelayClamped ==
    output # NoOutput =>
        LET r == input[1]
            d == output[1]
        IN  /\ 60000 <= d /\ d <= 21600000
            /\ r = Absent => d = 1800000
            /\ (r # Absent /\ r[1] < 60000) => d = 60000
            /\ (r # Absent /\ r[1] > 21600000) => d = 21600000
            /\ (r # Absent /\ 60000 <= r[1] /\ r[1] <= 21600000) => d = r[1]
            /\ r = Some(5000) => d = 60000
            /\ r = Some(999999999) => d = 21600000

\* the delay computed for retryAfter = 5000
C13_Witness == input = <<Some(5000)>> /\ output = <<60000>>

----------------------------------------------------------------------------
(***************************************************************************)
(* analyseClaudeError.  A raw error text is a sequence of fragments; a     *)
(* pattern matches a text when it matches one of its fragments.            *)
(***************************************************************************)
\* longest text tried, in fragments
MaxFragments == 2

\* fragments that match a rule in some spelling, and near misses
Fragments ==
    {"5-hour limit reached", "5 Hour Limit Reached", "Status 429", "5-hour limit",
     "Image exceeds 5 MB maximum", "ECONNRESET", "network error", "network",
     "ENOENT", "spawn", "command not found", "exit code 1"}

Texts == UNION {[1..n -> Fragments] : n \in 0..MaxFragments}

\* String.prototype.toLowerCase, on the fragments
ToLowerCase(f) ==
    CASE f = "5 Hour Limit Reached" -> "5 hour limit reached"
      [] f = "Status 429" -> "status 429"
      [] f = "Image exceeds 5 MB maximum" -> "image exceeds 5 mb maximum"
      [] f = "ECONNRESET" -> "econnreset"
      [] f = "ENOENT" -> "enoent"
      [] OTHER -> f

\* /pattern/i.test(message): pats are the lower-case strings of the pattern's
\* language among the fragments
Test(pats, message) == \E i \in 1..Len(message) : ToLowerCase(message[i]) \in pats

\* the rules of analyseClaudeError in the order of its if statements
Rules ==
    << [kind |-> "USAGE_LIMIT",
        pats |-> {"5-hour limit reached", "5 hour limit reached", "status 429"}],
       [kind |-> "IMAGE_TOO_LARGE", pats |-> {"image exceeds 5 mb maximum"}],
       [kind |-> "NETWORK", pats |-> {"econnreset", "network error"}],
       [kind |-> "CLI_NOT_FOUND", pats |-> {"command not found", "enoent", "spawn"}] >>

\* analyseClaudeError with the network rule tried first
AnalyseNetworkFirst(message) ==
    IF Test(Rules[3].pats, message) THEN "NETWORK"
    ELSE IF Test(Rules[1].pats, message) THEN "USAGE_LIMIT"
    ELSE IF Test(Rules[2].pats, message) THEN "IMAGE_TOO_LARGE"
    ELSE IF Test(Rules[4].pats, message) THEN "CLI_NOT_FOUND"
    ELSE "UNKNOWN"
\* analyseClaudeError(message).kind
AnalyseClaudeError(message) ==
    IF Test(Rules[1].pats, message) THEN "USAGE_LIMIT"
    ELSE IF Test(Rules[2].pats, message) THEN "IMAGE_TOO_LARGE"
    ELSE IF Test(Rules[3].pats, message) THEN "NETWORK"
    ELSE IF Test(Rules[4].pats, message) THEN "CLI_NOT_FOUND"
    ELSE "UNKNOWN"

InitClassify ==
    /\ InitQuiet
    /\ input \in {<<text>> : text \in Texts}
    /\ output = NoOutput

ApplyAnalyse ==
    /\ output = NoOutput
    /\ output' = <<AnalyseClaudeError(input[1])>>
    /\ UNCHANGED <<input, adapter, actorVars, streamVars>>

SpecClassify == InitClassify /\ [][ApplyAnalyse]_vars

\* C17: the kind returned is that of the first rule, in the order UsageLimit,
\* PayloadTooLarge, NetworkTransient, DependencyMissing, whose pattern matches
\* the text, and it is Unknown exactly when no rule matches.
C17_FirstMatchWins ==
    output # NoOutput =>
        LET hits == {i \in 1..Len(Rules) : Test(Rules[i].pats, input[1])}
        IN  /\ \A i \in hits : (\A j \in hits : i <= j) => output[1] = Rules[i].kind
            /\ output[1] = "UNKNOWN" <=> hits = {}

\* a text that matches the network rule and the usage-limit rule
C17_Witness ==
    /\ input = << <<"ECONNRESET", "5-hour limit reached">> >>
    /\ output = <<"USAGE_LIMIT">>

----------------------------------------------------------------------------
(***************************************************************************)
(* detectUsageLimitReset.  The argument is what the regular expression     *)
(* captures from the message (digits of the hour, digits of the minute,    *)
(* am/pm) or no match; the clock is the local time of day in milliseconds  *)
(* in a zone without a clock change.                                       *)
(***************************************************************************)
HourMs == 60 * 60000
DayMs == 24 * HourMs

\* (\d{1,2}): one or two digits
HourDigits == {<<0>>, <<3>>, <<0, 3>>, <<1, 1>>, <<1, 2>>, <<1, 3>>, <<2, 3>>,
               <<2, 5>>, <<9, 9>>}
\* (?::(\d{2}))?: absent or two digits
MinuteDigits == {Absent, Some(<<0, 0>>), Some(<<3, 0>>), Some(<<5, 9>>), Some(<<7, 5>>)}
\* (am|pm)? under the flag i
AmPm == {Absent, Some("am"), Some("pm"), Some("AM"), Some("Pm")}
\* new Date(): the time of day
Clock == {0, 1, 3 * HourMs - 1, 3 * HourMs, 3 * HourMs + 1, 11 * HourMs + 30 * 60000,
          12 * HourMs, 15 * HourMs, 23 * HourMs + 59 * 60000 + 59999}

NoMatch == [match |-> FALSE, hh |-> <<>>, mm |-> Absent, ampm |-> Absent]
ResetInputs ==
    {NoMatch} \cup [match : {TRUE}, hh : HourDigits, mm : MinuteDigits, ampm : AmPm]

\* parseInt(digits, 10)
RECURSIVE ParseInt(_)
ParseInt(ds) ==
    IF ds = <<>> THEN 0 ELSE 10 * ParseInt(SubSeq(ds, 1, Len(ds) - 1)) + ds[Len(ds)]

\* (match[3] ?? "").toLowerCase()
AmPmLower(a) ==
    IF a = Absent THEN ""
    ELSE IF a[1] \in {"am", "AM"} THEN "am" ELSE "pm"

\* detectUsageLimitReset advancing a day only when the time has passed
DetectNoAdvanceAtNow(m, now) ==
    IF ~m.match THEN Absent
    ELSE LET h0 == ParseInt(m.hh)
             minutes == IF m.mm # Absent THEN ParseInt(m.mm[1]) ELSE 0
             ampm == AmPmLower(m.ampm)
             h1 == IF ampm = "pm" /\ h0 < 12 THEN h0 + 12 ELSE h0
             hours == IF ampm = "am" /\ h1 = 12 THEN 0 ELSE h1
             today == hours * HourMs + minutes * 60000
             target == IF today < now THEN today + DayMs ELSE today
         IN  Some(MathMax(target - now, 0))
\* detectUsageLimitReset(message) at the time of day now; target is counted
\* from the midnight before now (setHours carries hours and minutes over)
DetectUsageLimitReset(m, now) ==
    IF ~m.match THEN Absent
    ELSE LET h0 == ParseInt(m.hh)
             minutes == IF m.mm # Absent THEN ParseInt(m.mm[1]) ELSE 0
             ampm == AmPmLower(m.ampm)
             h1 == IF ampm = "pm" /\ h0 < 12 THEN h0 + 12 ELSE h0
             hours == IF ampm = "am" /\ h1 = 12 THEN 0 ELSE h1
             today == hours * HourMs + minutes * 60000
             target == IF today <= now THEN today + DayMs ELSE today
         IN  Some(MathMax(target - now, 0))

InitReset ==
    /\ InitQuiet
    /\ input \in {<<m, now>> : m \in ResetInputs, now \in Clock}
    /\ output = NoOutput

ApplyDetect ==
    /\ output = NoOutput
    /\ output' = <<DetectUsageLimitReset(input[1], input[2])>>
    /\ UNCHANGED <<input, adapter, actorVars, streamVars>>

SpecReset == InitReset /\ [][ApplyDetect]_vars

\* the captures spell a time of day: 1..12 with am or pm, 0..23 without, and
\* minutes 00..59
IsTimeOfDay(m) ==
    /\ m.match
    /\ IF m.ampm # Absent THEN ParseInt(m.hh) \in 1..12 ELSE ParseInt(m.hh) \in 0..23
    /\ m.mm # Absent => ParseInt(m.mm[1]) \in 0..59

\* the time of day the captures spell, in milliseconds after midnight
TimeOfDay(m) ==
    LET h == ParseInt(m.hh)
        h24 == IF m.ampm = Absent THEN h
               ELSE IF AmPmLower(m.ampm) = "am" THEN (IF h = 12 THEN 0 ELSE h)
               ELSE (IF h = 12 THEN 12 ELSE h + 12)
    IN  h24 * HourMs + (IF m.mm = Absent THEN 0 ELSE ParseInt(m.mm[1]) * 60000)

----------------------------------------------------------------------------
(***************************************************************************)
(* withRetry.  The argument is maxRetries (Absent: the default, Infinity)  *)
(* and what the attempts of fn do, in order.                               *)
(***************************************************************************)
\* attempts whose outcome is drawn
MaxAttempts == 4

RetryInputs ==
    {<<max, outs>> :
        max \in {Absent} \cup {Some(n) : n \in (0 - 1)..MaxAttempts},
        outs \in [1..MaxAttempts -> {"resolves", "rejects"}]}

\* attempt < maxRetries, with maxRetries = Infinity by default
Below(attempt, maxRetries) == maxRetries = Absent \/ attempt < maxRetries[1]

\* The while loop of withRetry from the state attempt, fn called attempt times
\* so far.  Result: the calls made and how withRetry settles; value names the
\* attempt whose result or failure is passed on, 0 the error made by
\* withRetry itself; "retrying" when the drawn outcomes are used up.
RECURSIVE RetryLoop(_, _, _)
RetryLoop(maxRetries, outs, attempt) ==
    IF ~Below(attempt, maxRetries)
    THEN [calls |-> attempt, settled |-> "raised", value |-> 0]
    ELSE IF attempt + 1 > Len(outs)
    THEN [calls |-> attempt, settled |-> "retrying", value |-> 0]
    ELSE IF outs[attempt + 1] = "resolves"
    THEN [calls |-> attempt + 1, settled |-> "returned", value |-> attempt + 1]
    ELSE IF ~Below(attempt + 1, maxRetries)
    THEN [calls |-> attempt + 1, settled |-> "raised", value |-> attempt + 1]
    ELSE RetryLoop(maxRetries, outs, attempt + 1)

\* withRetry allowing one attempt more
WithRetryOneMore(maxRetries, outs) ==
    RetryLoop(IF maxRetries = Absent THEN Absent ELSE Some(maxRetries[1] + 1), outs, 0)
\* withRetry(fn, label, {maxRetries})
WithRetry(maxRetries, outs) == RetryLoop(maxRetries, outs, 0)

InitRetry ==
    /\ InitQuiet
    /\ input \in RetryInputs
    /\ output = NoOutput

ApplyWithRetry ==
    /\ output = NoOutput
    /\ output' = <<WithRetry(input[1], input[2])>>
    /\ UNCHANGED <<input, adapter, actorVars, streamVars>>

SpecRetry == InitRetry /\ [][ApplyWithRetry]_vars

\* the first k attempts all reject
AllReject(outs, k) == \A i \in 1..k : i <= Len(outs) => outs[i] = "rejects"

\* C19 as stated: withRetry returns the result of the first attempt that
\* resolves, with no attempt after it; when every attempt rejects it calls the
\* operation exactly maxRetries times and raises the failure of the last
\* attempt, for every finite maxRetries.
C19_ExactlyMaxRetries ==
    output # NoOutput =>
        LET max == input[1]
            outs == input[2]
            r == output[1]
        IN  /\ r.settled = "returned" =>
                  /\ outs[r.value] = "resolves"
                  /\ AllReject(outs, r.value - 1)
                  /\ r.calls = r.value
            /\ (max # Absent /\ AllReject(outs, max[1])) =>
                  /\ r.calls = max[1]
                  /\ r.settled = "raised"
                  /\ r.value = max[1]

\* C19, for maxRetries of at least 1: the result of the first attempt that
\* resolves is returned with no attempt after it; when maxRetries attempts
\* reject, the operation has been called exactly maxRetries times and the
\* failure of the last attempt is raised.  With maxRetries of 0 or less the
\* operation is not called and withRetry raises an error of its own.
C19_ExactlyMaxRetriesFromOne ==
    output # NoOutput =>
        LET max == input[1]
            outs == input[2]
            r == output[1]
        IN  /\ r.settled = "returned" =>
                  /\ outs[r.value] = "resolves"
                  /\ AllReject(outs, r.value - 1)
                  /\ r.calls = r.value
            /\ (max # Absent /\ max[1] >= 1 /\ AllReject(outs, max[1])) =>
                  /\ r.calls = max[1]
                  /\ r.settled = "raised"
                  /\ r.value = max[1]
            /\ (max # Absent /\ max[1] >= 1 /\ ~AllReject(outs, max[1])) =>
                  r.settled = "returned"
            /\ (max # Absent /\ max[1] < 1) =>
                  r = [calls |-> 0, settled |-> "raised", value |-> 0]

\* maxRetries = 3 and three rejected attempts: the third failure is raised
C19_Witness ==
    /\ input[1] = Some(3)
    /\ AllReject(input[2], 3)
    /\ output = <<[calls |-> 3, settled |-> "raised", value |-> 3]>>
----------------------------------------------------------------------------
(***************************************************************************)
(* Part C: sendLongToCurrentThread, the chunks of a final text.  A text is *)
(* a sequence of characters; "\n" is the line terminator.                  *)
(***************************************************************************)
\* the chunk budget: currentMessage.length + line.length + 1 > 1900
ChunkBudget == 1900

\* fragments a final text is put together from
MaxChunkFragments == 3

\* n times the character c
Run(c, n) == [i \in 1..n |-> c]

ChunkFragments ==
    {<<"\n">>, <<"a">>, Run("b", ChunkBudget - 2), Run("c", ChunkBudget),
     Run("d", ChunkBudget + 1)}

RECURSIVE Concat(_)
Concat(frs) == IF frs = <<>> THEN <<>> ELSE Head(frs) \o Concat(Tail(frs))

\* the final texts: up to MaxChunkFragments fragments, and the empty text
FinalTexts ==
    {Concat(frs) : frs \in UNION {[1..n -> ChunkFragments] : n \in 0..MaxChunkFragments}}

\* content.split("\n")
Split(content) ==
    LET nl == {i \in 1..Len(content) : content[i] = "\n"}
        \* the position of the k-th line terminator, 0 and Len + 1 at the ends
        at(k) == IF k = 0 THEN 0
                 ELSE IF k = Cardinality(nl) + 1 THEN Len(content) + 1
                 ELSE CHOOSE i \in nl : Cardinality({j \in nl : j <= i}) = k
    IN  [k \in 1..(Cardinality(nl) + 1) |-> SubSeq(content, at(k - 1) + 1, at(k) - 1)]

\* messages.join("\n"), what the reader of the chunks sees
RECURSIVE Join(_)
Join(messages) ==
    IF messages = <<>> THEN <<>>
    ELSE IF Len(messages) = 1 THEN messages[1]
    ELSE messages[1] \o <<"\n">> \o Join(Tail(messages))

\* the body of for (const line of lines)
RECURSIVE ChunkLoop(_, _, _)
ChunkLoop(lines, messages, currentMessage) ==
    IF lines = <<>> THEN [messages |-> messages, currentMessage |-> currentMessage]
    ELSE LET line == Head(lines)
         IN  IF Len(currentMessage) + Len(line) + 1 > ChunkBudget
             THEN ChunkLoop(Tail(lines), Append(messages, currentMessage), line)
             ELSE ChunkLoop(Tail(lines), messages,
                            currentMessage
                                \o (IF currentMessage # <<>> THEN <<"\n">> ELSE <<>>)
                                \o line)

\* the messages array of sendLongToCurrentThread
LongMessages(content) ==
    LET r == ChunkLoop(Split(content), <<>>, <<>>)
    IN  IF r.currentMessage # <<>>
        THEN Append(r.messages, r.currentMessage)
        ELSE r.messages

\* for (const msg of messages): the sends that succeed, in the order made;
\* a send that fails after its retries is logged and the loop goes on
RECURSIVE SendEach(_, _, _)
SendEach(messages, oks, k) ==
    IF k > Len(messages) THEN <<>>
    ELSE (IF oks[k] THEN <<messages[k]>> ELSE <<>>) \o SendEach(messages, oks, k + 1)

InitChunks ==
    /\ InitQuiet
    /\ input \in {<<c>> : c \in FinalTexts}
    /\ output = NoOutput

\* sendLongToCurrentThread(content)
SendLongToCurrentThread ==
    /\ output = NoOutput
    /\ LET messages == LongMessages(input[1])
       IN  \E oks \in [1..Len(messages) -> BOOLEAN] :
              output' = <<[messages |-> messages, oks |-> oks,
                           sent |-> SendEach(messages, oks, 1)]>>
    /\ UNCHANGED <<input, adapter, actorVars, streamVars>>

SpecChunks == InitChunks /\ [][SendLongToCurrentThread]_vars

\* the line is one of the lines of one of the chunks
WholeIn(line, messages) ==
    \E m \in 1..Len(messages) :
        \E k \in 1..Len(Split(messages[m])) : Split(messages[m])[k] = line

\* C29: for every final text the chunks are non-empty, are delivered in
\* order, have at most ChunkBudget characters each, keep whole every
\* (non-empty) line that fits the budget, and joined with newlines give back
\* the final text.
C29_ChunksOfFinalText ==
    output # NoOutput =>
        LET content == input[1]
            r == output[1]
        IN  /\ \A m \in 1..Len(r.messages) :
                  /\ r.messages[m] # <<>>
                  /\ Len(r.messages[m]) <= ChunkBudget
            /\ (\A m \in 1..Len(r.messages) : r.oks[m]) => r.sent = r.messages
            /\ \A k \in 1..Len(Split(content)) :
                  (Split(content)[k] # <<>> /\ Len(Split(content)[k]) <= ChunkBudget) =>
                      WholeIn(Split(content)[k], r.messages)
            /\ Join(r.messages) = content
----------------------------------------------------------------------------
(***************************************************************************)
(* Part D: ClaudeCodeAdapter, its session fields and its preflight check.  *)
(* adapter is a record of the fields of one instance, of the calls of      *)
(* query and queryStream that are in progress, and of history.             *)
(***************************************************************************)
\* calls of query / queryStream made on the instance
MaxQueries == 3

\* the session identifiers the agent reports
SessionIds == {"s1", "s2"}

\* config.sessionId: absent, or a session to resume
ConfigSessionIds == {Absent, Some("s0")}

\* the messages of the errors the agent client throws (an AbortError apart)
FailureMessages == {<<"spawn">>, <<"ENOENT">>, <<"network error">>}

\* new ClaudeCodeAdapter(config); made, preflights, asked, last, reset and
\* initSeen are history: the calls made, the preflight checks run, the
\* failures whose message asks for one, how the last call to settle ended,
\* whether resetSession was called, whether a session-init event came in
\* since the last reset
NewAdapter(sessionId) ==
    [sessionId |-> sessionId,
     isFirstQuery |-> sessionId = Absent,
     currentSessionId |-> sessionId,
     preflightChecked |-> FALSE,
     calls |-> <<>>,
     made |-> 0, preflights |-> 0, asked |-> 0, last |-> "none",
     reset |-> FALSE, initSeen |-> FALSE]

\* the options of query and queryStream: continue and resume
QueryOptions(a) ==
    [continue |-> ~a.isFirstQuery,
     resume |-> IF a.sessionId # Absent /\ a.isFirstQuery THEN a.sessionId ELSE Absent]

\* shouldRunPreflight(message): the fragments that hold "exited with code",
\* "spawn", "enoent", "not found" or "eacces" once in lower case
ShouldRunPreflight(message) ==
    Test({"exited with code 1", "exited with code", "spawn", "enoent",
          "not found", "eacces"}, message)

\* a preflight for every failure that asks for one
PreflightDueEachTime(a, message) == ShouldRunPreflight(message)
\* this.shouldRunPreflight(rawMsg) && !this.preflightChecked
PreflightDue(a, message) == ShouldRunPreflight(message) /\ ~a.preflightChecked

InitAdapter ==
    /\ InitActor
    /\ cfg = [bus |-> TRUE, streaming |-> TRUE, autoRetry |-> FALSE]
    /\ InitCoordinator
    /\ DefaultConfig
    /\ input = NoInput
    /\ output = NoOutput
    /\ adapter \in {NewAdapter(sid) : sid \in ConfigSessionIds}

\* query(prompt) or queryStream(prompt) up to the first await of its loop
Query(kind) ==
    /\ adapter.made < MaxQueries
    /\ adapter' = [adapter EXCEPT
                      !.made = @ + 1,
                      !.calls = Append(@, [kind |-> kind, options |-> QueryOptions(adapter),
                                           pc |-> "running", message |-> <<>>])]
    /\ UNCHANGED <<input, output, actorVars, streamVars>>

\* the loop of call i gets a system init message
SystemInit(i, sid) ==
    /\ i \in 1..Len(adapter.calls)
    /\ adapter.calls[i].pc = "running"
    /\ adapter' = [adapter EXCEPT !.currentSessionId = Some(sid),
                                  !.isFirstQuery = FALSE,
                                  !.initSeen = TRUE]
    /\ UNCHANGED <<input, output, actorVars, streamVars>>

\* the loop of call i gets a result message
Result(i, sid) ==
    /\ i \in 1..Len(adapter.calls)
    /\ adapter.calls[i].pc = "running"
    /\ adapter' = [adapter EXCEPT !.currentSessionId = Some(sid)]
    /\ UNCHANGED <<input, output, actorVars, streamVars>>

\* the response of call i is exhausted: the call returns
QueryReturns(i) ==
    /\ i \in 1..Len(adapter.calls)
    /\ adapter.calls[i].pc = "running"
    /\ adapter' = [adapter EXCEPT !.calls = RemoveAt(@, i), !.last = "returned"]
    /\ UNCHANGED <<input, output, actorVars, streamVars>>

\* the response of call i throws an AbortError: "Query was aborted"
QueryAborted(i) ==
    /\ i \in 1..Len(adapter.calls)
    /\ adapter.calls[i].pc = "running"
    /\ adapter' = [adapter EXCEPT !.calls = RemoveAt(@, i), !.last = "aborted"]
    /\ UNCHANGED <<input, output, actorVars, streamVars>>

\* the response of call i throws another error: the catch block up to its
\* await of checkClaudeCliPresence, or to its throw
QueryFails(i, message) ==
    /\ i \in 1..Len(adapter.calls)
    /\ adapter.calls[i].pc = "running"
    /\ LET asked == IF ShouldRunPreflight(message) THEN 1 ELSE 0
       IN  IF PreflightDue(adapter, message)
           THEN adapter' = [adapter EXCEPT !.preflightChecked = TRUE,
                                           !.preflights = @ + 1,
                                           !.asked = @ + asked,
                                           !.calls[i].pc = "preflight",
                                           !.calls[i].message = message]
           ELSE adapter' = [adapter EXCEPT !.calls = RemoveAt(@, i),
                                           !.asked = @ + asked,
                                           !.last = "failed"]
    /\ UNCHANGED <<input, output, actorVars, streamVars>>

\* checkClaudeCliPresence of call i has settled: the call throws its payload
PreflightDone(i) ==
    /\ i \in 1..Len(adapter.calls)
    /\ adapter.calls[i].pc = "preflight"
    /\ adapter' = [adapter EXCEPT !.calls = RemoveAt(@, i), !.last = "failed"]
    /\ UNCHANGED <<input, output, actorVars, streamVars>>

\* resetSession()
ResetSession ==
    /\ adapter' = [adapter EXCEPT !.isFirstQuery = TRUE,
                                  !.currentSessionId = Absent,
                                  !.reset = TRUE,
                                  !.initSeen = FALSE]
    /\ UNCHANGED <<input, output, actorVars, streamVars>>

NextAdapter ==
    \/ \E kind \in {"query", "queryStream"} : Query(kind)
    \/ \E i \in 1..MaxQueries, sid \in SessionIds : SystemInit(i, sid)
    \/ \E i \in 1..MaxQueries, sid \in SessionIds : Result(i, sid)
    \/ \E i \in 1..MaxQueries : QueryReturns(i)
    \/ \E i \in 1..MaxQueries : QueryAborted(i)
    \/ \E i \in 1..MaxQueries, message \in FailureMessages : QueryFails(i, message)
    \/ \E i \in 1..MaxQueries : PreflightDone(i)
    \/ ResetSession

SpecAdapter == InitAdapter /\ [][NextAdapter]_vars
\* C33: across the failing calls of query and queryStream on one adapter
\* instance, overlapping ones included, checkClaudeCliPresence runs at most
\* once.
C33_PreflightAtMostOnce == adapter.preflights <= 1

\* two failures asked for the check, the second while the check started by
\* the first was still awaited, and the check ran once
C33_Witness ==
    /\ adapter.asked >= 2
    /\ adapter.preflights = 1
    /\ \E i \in 1..Len(adapter.calls) :
          /\ adapter.calls[i].pc = "preflight"
          /\ adapter.calls[i].kind = "queryStream"
    /\ adapter.last = "failed"

\* C39: after resetSession() the current session identifier is unset, and a
\* query made before any session-init event has come in since carries neither
\* the continue flag nor a resume identifier, with or without a configured
\* session id; otherwise a query carries the continue flag exactly when a
\* session-init event has come in since the last reset, or a session id was
\* configured and there was no reset.
C39_ResetStartsAfresh ==
    [][/\ (adapter'.reset /\ ~adapter'.initSeen /\ adapter'.made = adapter.made /\
           adapter'.calls = adapter.calls /\ adapter' # adapter) =>
              adapter'.currentSessionId = Absent
       /\ adapter'.made = adapter.made + 1 =>
              LET options == adapter'.calls[Len(adapter'.calls)].options
              IN  IF adapter.reset /\ ~adapter.initSeen
                  THEN ~options.continue /\ options.resume = Absent
                  ELSE options.continue <=>
                          (adapter.initSeen \/ (~adapter.reset /\ adapter.sessionId # Absent))]_vars

====
